---- MODULE Spec2Model ----
(***************************************************************************)
(* A model of the Blueprint parser package (src/parser/ast.go): the AST    *)
(* nodes with Copy / Type / Eval, the two-tier Scope, the parser's error   *)
(* policy, the inline evaluator of `+` and the select parser.              *)
(*                                                                         *)
(* Go pointers are modelled as indices into heaps: `mem` holds the AST     *)
(* nodes (the String, List, Operator, Property, SelectCase objects and the *)
(* two slices that Copy shares by header, SelectCase.Patterns and          *)
(* Select.Conditions), `asgs` holds the Assignment objects and `scopes`    *)
(* the Scope objects.  Source text is modelled after lexing, as syntax     *)
(* terms; a scanner.Position is modelled by the running token offset.      *)
(***************************************************************************)
EXTENDS Integers, Sequences, FiniteSets, TLC

VARIABLES mem, asgs, scopes, p, ret, arg

vars == <<mem, asgs, scopes, p, ret, arg>>

------------------------------------------------------------------------------
(* Bounds of the model *)

MaxScopes == 2
MaxAsgs == 2
MaxNodes == 4

(* Program constants *)

maxErrors == 1

Nil == 0

default_select_branch_name == "__soong_conditions_default__"

BoolType == "bool"
StringType == "string"
Int64Type == "int64"
ListType == "list"
MapType == "map"
NotEvaluatedType == "notevaluated"
UnsetType == "unset"

------------------------------------------------------------------------------
(* AST nodes.  Every node is a record of one shape; a field a Go struct      *)
(* does not have keeps its zero value.                                        *)
(*   s    : String.Value, Variable.Name, Property.Name, Int64.Token,          *)
(*          Bool.Token                                                        *)
(*   b, i : Bool.Value, Int64.Value                                           *)
(*   kids : List.Values, Map.Properties, Operator.Args, Select.Cases, the     *)
(*          elements of a Patterns backing array                              *)
(*   val  : Variable.Value, Operator.Value, Property.Value,                   *)
(*          SelectCase.Value, Select.Append                                   *)
(*   ref  : SelectCase.Patterns, Select.Conditions (the slice's backing      *)
(*          array, itself a node)                                             *)
(*   conds: the ConfigurableCondition values of a Conditions backing array    *)
(*   ty   : Select.ExpressionType                                             *)
(*   pos  : LiteralPos / NamePos / Position / KeywordPos / OperatorPos        *)

Blank ==
    [kind |-> "", b |-> FALSE, s |-> "", i |-> 0, kids |-> <<>>, val |-> Nil,
     ref |-> Nil, conds |-> <<>>, ty |-> "", pos |-> 0]

String(pos, v) == [Blank EXCEPT !.kind = "String", !.s = v, !.pos = pos]

Bool(pos, v, tok) == [Blank EXCEPT !.kind = "Bool", !.b = v, !.s = tok, !.pos = pos]

Int64(pos, v, tok) == [Blank EXCEPT !.kind = "Int64", !.i = v, !.s = tok, !.pos = pos]

List(values) == [Blank EXCEPT !.kind = "List", !.kids = values]

Map(properties) == [Blank EXCEPT !.kind = "Map", !.kids = properties]

Property(name, pos, value) ==
    [Blank EXCEPT !.kind = "Property", !.s = name, !.pos = pos, !.val = value]

Variable(name, pos, value) ==
    [Blank EXCEPT !.kind = "Variable", !.s = name, !.pos = pos, !.val = value]

Operator(a0, a1, pos, value) ==
    [Blank EXCEPT !.kind = "Operator", !.kids = <<a0, a1>>, !.pos = pos, !.val = value]

Select(pos, conditions, cases, append, ty) ==
    [Blank EXCEPT !.kind = "Select", !.pos = pos, !.ref = conditions, !.kids = cases,
                  !.val = append, !.ty = ty]

SelectCase(patterns, value) ==
    [Blank EXCEPT !.kind = "SelectCase", !.ref = patterns, !.val = value]

NotEvaluated(pos) == [Blank EXCEPT !.kind = "NotEvaluated", !.pos = pos]

UnsetProperty(pos) == [Blank EXCEPT !.kind = "UnsetProperty", !.pos = pos]

(* The backing array of a []Expression slice (SelectCase.Patterns). *)
PatternArray(patterns) == [Blank EXCEPT !.kind = "[]Expression", !.kids = patterns]

(* The backing array of a []ConfigurableCondition slice (Select.Conditions). *)
ConditionArray(conditions) ==
    [Blank EXCEPT !.kind = "[]ConfigurableCondition", !.conds = conditions]

ConfigurableCondition(pos, functionName, args) ==
    [position |-> pos, FunctionName |-> functionName, Args |-> args]

(* A String held by value in ConfigurableCondition.Args ([]String). *)
StringValue(pos, v) == [LiteralPos |-> pos, Value |-> v]

(* F applied to the value e, computed once. *)
With(e, F(_)) == F(e)

------------------------------------------------------------------------------
(* Type, Eval *)

RECURSIVE Type(_, _)
Type(m, x) ==
    LET n == m[x] IN
    CASE n.kind = "Bool" -> BoolType
      [] n.kind = "String" -> StringType
      [] n.kind = "Int64" -> Int64Type
      [] n.kind = "List" -> ListType
      [] n.kind = "Map" -> MapType
      [] n.kind = "NotEvaluated" -> NotEvaluatedType
      [] n.kind = "UnsetProperty" -> UnsetType
      [] n.kind = "Variable" -> Type(m, n.val)
      [] n.kind = "Operator" -> Type(m, n.kids[1])
      [] n.kind = "Select" ->
            IF n.ty = UnsetType /\ n.val # Nil THEN Type(m, n.val) ELSE n.ty

(* Eval returns the node the expression evaluates to.  NotEvaluated and      *)
(* UnsetProperty are value types whose Eval rebuilds an equal value: the     *)
(* model returns the receiver, which has the same fields.                    *)
RECURSIVE Eval(_, _)
(* x.Eval() that returns the stored Value of an Operator or Variable as it is. *)
EvalOnce(m, x) ==
    IF m[x].kind \in {"Operator", "Variable"} THEN m[x].val ELSE x

Eval(m, x) ==
    LET n == m[x] IN
    IF n.kind \in {"Operator", "Variable"} THEN Eval(m, n.val) ELSE x

------------------------------------------------------------------------------
(* Copy.  The result is [mem |-> the heap with the copy allocated,           *)
(* id |-> the copy].                                                          *)

RECURSIVE Copy(_, _)
RECURSIVE CopyAll(_, _)

(* xs[1].Copy(), xs[2].Copy(), ... in order: [mem, ids]. *)
CopyAll(m, xs) ==
    IF xs = <<>> THEN [mem |-> m, ids |-> <<>>]
    ELSE With(Copy(m, Head(xs)), LAMBDA h :
         With(CopyAll(h.mem, Tail(xs)), LAMBDA t :
            [mem |-> t.mem, ids |-> <<h.id>> \o t.ids]))

(* x.Copy() that returns x itself. *)
CopyInPlace(m, x) == [mem |-> m, id |-> x]

Copy(m, x) ==
    LET n == m[x] IN
    CASE n.kind \in {"String", "Int64", "Bool", "Variable", "NotEvaluated",
                     "UnsetProperty"} ->
            \* ret := *x: every field copied, pointers and slices shared
            [mem |-> Append(m, n), id |-> Len(m) + 1]
      [] n.kind = "Operator" ->
            \* Args copied, Value shared
            With(CopyAll(m, n.kids), LAMBDA cs :
               [mem |-> Append(cs.mem, [n EXCEPT !.kids = cs.ids]),
                id |-> Len(cs.mem) + 1])
      [] n.kind \in {"List", "Map"} ->
            With(CopyAll(m, n.kids), LAMBDA cs :
               [mem |-> Append(cs.mem, [n EXCEPT !.kids = cs.ids]),
                id |-> Len(cs.mem) + 1])
      [] n.kind \in {"Property", "SelectCase"} ->
            \* ret := *p; ret.Value = p.Value.Copy(): Patterns shared
            With(Copy(m, n.val), LAMBDA c :
               [mem |-> Append(c.mem, [n EXCEPT !.val = c.id]),
                id |-> Len(c.mem) + 1])
      [] n.kind = "Select" ->
            \* Cases and Append copied, Conditions shared
            With(CopyAll(m, n.kids), LAMBDA cs :
            With(IF n.val # Nil THEN Copy(cs.mem, n.val)
                 ELSE [mem |-> cs.mem, id |-> Nil], LAMBDA ap :
               [mem |-> Append(ap.mem, [n EXCEPT !.kids = cs.ids, !.val = ap.id]),
                id |-> Len(ap.mem) + 1]))

------------------------------------------------------------------------------
(* Scope.  A Go map[string]*Assignment is a function from the names it holds *)
(* to indices of `asgs`.                                                      *)

EmptyTable == [n \in {} |-> Nil]

Assignment(name, value, assigner) ==
    [Name |-> name, Value |-> value, OrigValue |-> value, Assigner |-> assigner,
     Referenced |-> FALSE]

(* NewScope(s): S is the heap of scopes, s the parent or Nil. *)
NewScope(S, s) ==
    [vars |-> EmptyTable,
     inheritedVars |->
        IF s = Nil THEN EmptyTable
        ELSE [n \in DOMAIN S[s].vars \cup DOMAIN S[s].inheritedVars |->
                IF n \in DOMAIN S[s].inheritedVars THEN S[s].inheritedVars[n]
                ELSE S[s].vars[n]]]

(* s.Add(assignment): [scope |-> the scope afterwards, err |-> "" or the error]. *)
AddIgnoringInherited(sc, name, a) ==
    IF name \in DOMAIN sc.vars
    THEN [scope |-> sc, err |-> "variable already set"]
    ELSE [scope |-> [sc EXCEPT !.vars = (name :> a) @@ sc.vars], err |-> ""]

AddOverwriting(sc, name, a) ==
    [scope |-> [sc EXCEPT !.vars = (name :> a) @@ [n \in DOMAIN sc.vars \ {name} |-> sc.vars[n]]],
     err |-> ""]

Add(sc, name, a) ==
    IF name \in DOMAIN sc.vars
    THEN [scope |-> sc, err |-> "variable already set"]
    ELSE IF name \in DOMAIN sc.inheritedVars
    THEN [scope |-> sc, err |-> "variable already set in inherited scope"]
    ELSE [scope |-> [sc EXCEPT !.vars = (name :> a) @@ sc.vars], err |-> ""]

Remove(sc, name) ==
    [vars |-> [n \in DOMAIN sc.vars \ {name} |-> sc.vars[n]],
     inheritedVars |-> [n \in DOMAIN sc.inheritedVars \ {name} |-> sc.inheritedVars[n]]]

(* s.Get(name): [a |-> the assignment or Nil, local |-> isLocal]. *)
Get(sc, name) ==
    IF name \in DOMAIN sc.vars THEN [a |-> sc.vars[name], local |-> TRUE]
    ELSE IF name \in DOMAIN sc.inheritedVars
    THEN [a |-> sc.inheritedVars[name], local |-> FALSE]
    ELSE [a |-> Nil, local |-> FALSE]

------------------------------------------------------------------------------
(* The evaluator of `+`.  evaluateOperator and addMaps return the heap with  *)
(* what they allocated, the result and the error ("" for nil).                *)

RECURSIVE evaluateOperator(_, _, _, _, _)
RECURSIVE addMaps(_, _, _, _, _)
RECURSIVE addMapsLeft(_, _, _, _, _, _)

PropertyNames(m, props) == {m[props[k]].s : k \in DOMAIN props}

(* inBoth[name]: the last property of map2 with that name. *)
InBoth(m, map2, name) ==
    map2[CHOOSE k \in DOMAIN map2 :
            /\ m[map2[k]].s = name
            /\ \A j \in DOMAIN map2 : m[map2[j]].s = name => j <= k]

(* The first loop of addMaps over map1, from its rest `rest`. *)
addMapsLeft(m, eval, rest, map1, map2, pos) ==
    IF rest = <<>> THEN [mem |-> m, props |-> <<>>, err |-> ""]
    ELSE
      LET prop1 == Head(rest)
          both == PropertyNames(m, map1) \cap PropertyNames(m, map2)
      IN IF m[prop1].s \in both
         THEN With(evaluateOperator(m, eval, m[prop1].val,
                                    m[InBoth(m, map2, m[prop1].s)].val, pos),
                   LAMBDA r :
              IF r.err # "" THEN [mem |-> r.mem, props |-> <<>>, err |-> r.err]
              ELSE With(Append(r.mem, [m[prop1] EXCEPT !.val = r.val]), LAMBDA m2 :
                   With(addMapsLeft(m2, eval, Tail(rest), map1, map2, pos), LAMBDA t :
                      [t EXCEPT !.props = <<Len(m2)>> \o @])))
         ELSE With(addMapsLeft(m, eval, Tail(rest), map1, map2, pos), LAMBDA t :
                 [t EXCEPT !.props = <<prop1>> \o @])

(* addMaps with the properties of map2 alone put before those of map1. *)
addMapsRightFirst(m, eval, map1, map2, pos) ==
    LET both == PropertyNames(m, map1) \cap PropertyNames(m, map2)
    IN With(addMapsLeft(m, eval, map1, map1, map2, pos), LAMBDA left :
          IF left.err # "" THEN left
          ELSE [left EXCEPT !.props = SelectSeq(map2, LAMBDA q : m[q].s \notin both) \o @])

addMaps(m, eval, map1, map2, pos) ==
    LET both == PropertyNames(m, map1) \cap PropertyNames(m, map2)
    IN With(addMapsLeft(m, eval, map1, map1, map2, pos), LAMBDA left :
          IF left.err # "" THEN left
          ELSE [left EXCEPT !.props = @ \o SelectSeq(map2, LAMBDA q : m[q].s \notin both)])

(* The promotion of e1: [mem, e1]. *)
neverPromote(m, e1, e2) == [mem |-> m, e1 |-> e1]

promote(m, e1, e2) ==
    IF m[e1].kind # "Select" /\ m[e2].kind = "Select"
    THEN \* Promote e1 to a select so we can add e2 to it
         [mem |-> Append(Append(m, SelectCase(Nil, e1)),
                         Select(0, Nil, <<Len(m) + 1>>, Nil, Type(m, e1))),
          e1 |-> Len(m) + 2]
    ELSE [mem |-> m, e1 |-> e1]

(* evaluateOperator after its two early returns.  Int64 addition wraps at    *)
(* 64 bits in Go; the model's integers stay far below that.                   *)
foldOperator(m, eval, value1, value2, pos) ==
    IF ~eval
    THEN [mem |-> Append(m, Operator(value1, value2, pos, value1)),
          val |-> Len(m) + 1, err |-> ""]
    ELSE
      With(Eval(m, value1), LAMBDA e1 :
      With(Eval(m, value2), LAMBDA e2 :
      IF Type(m, e1) # Type(m, e2)
      THEN [mem |-> m, val |-> Nil, err |-> "mismatched type in operator +"]
      ELSE
        With(promote(m, e1, e2), LAMBDA pr :
        With(Copy(pr.mem, pr.e1), LAMBDA cp :
        LET value == cp.id
            v == cp.mem[value]
            done(mm) == [mem |-> Append(mm, Operator(value1, value2, pos, value)),
                         val |-> Len(mm) + 1, err |-> ""]
        IN
        CASE v.kind = "String" ->
                done([cp.mem EXCEPT ![value].s = @ \o m[e2].s])
          [] v.kind = "Int64" ->
                done([cp.mem EXCEPT ![value].i = @ + m[e2].i, ![value].s = ""])
          [] v.kind = "List" ->
                done([cp.mem EXCEPT ![value].kids = @ \o m[e2].kids])
          [] v.kind = "Map" ->
                With(addMaps(cp.mem, eval, v.kids, m[e2].kids, pos), LAMBDA r :
                   IF r.err # "" THEN [mem |-> r.mem, val |-> Nil, err |-> r.err]
                   ELSE done([r.mem EXCEPT ![value].kids = r.props]))
          [] v.kind = "Select" ->
                done([cp.mem EXCEPT ![value].val = e2])
          [] OTHER ->
                [mem |-> cp.mem, val |-> Nil, err |-> "operator + not supported on type"]))))

(* evaluateOperator without its early returns for unset operands. *)
evaluateOperatorNoUnset(m, eval, value1, value2, pos) ==
    foldOperator(m, eval, value1, value2, pos)

evaluateOperator(m, eval, value1, value2, pos) ==
    IF Type(m, value1) = UnsetType THEN [mem |-> m, val |-> value2, err |-> ""]
    ELSE IF Type(m, value2) = UnsetType THEN [mem |-> m, val |-> value1, err |-> ""]
    ELSE foldOperator(m, eval, value1, value2, pos)

------------------------------------------------------------------------------
(* The parser.  A parse context c holds the parser's fields (scope, eval,    *)
(* errors, the scanner's position pos) together with the heaps it works on;  *)
(* val / vals carry the value(s) a parse function returns.                   *)
(*                                                                            *)
(* Source terms (the input after lexing):                                     *)
(*   [t |-> "bool", b], [t |-> "int", i], [t |-> "str", s], [t |-> "var", n], *)
(*   [t |-> "list", xs], [t |-> "map", ps], [t |-> "plus", l, r],             *)
(*   [t |-> "select", multi, conds, cases], [t |-> "bad"] (any other token)   *)

(* p.error: record the error; with len(p.errors) >= maxErrors it panics with *)
(* errTooManyErrors, so nothing after it in the parse runs.                   *)
error(c, msg) == [c EXCEPT !.errors = Append(@, msg), !.val = Nil]

(* The parse is unwinding: errTooManyErrors, or a runtime panic. *)
Aborted(c) == c.panic \/ Len(c.errors) >= maxErrors

alloc(c, node) == [c EXCEPT !.mem = Append(@, node), !.val = Len(c.mem) + 1]

(* p.next() / p.accept(tok) of a matching token. *)
next(c) == [c EXCEPT !.pos = @ + 1]

(* strings.HasPrefix(s, "__soong") over the strings of the model. *)
HasSoongPrefix(s) == s \in {default_select_branch_name, "__soong_x"}

RECURSIVE parseExpression(_, _)
RECURSIVE parseValue(_, _)
RECURSIVE parseExpressions(_, _)
RECURSIVE parsePropertyList(_, _)
RECURSIVE parseSelect(_, _)
RECURSIVE parseCases(_, _, _, _)

parseBoolean(c, t) ==
    next(alloc(c, Bool(c.pos, t.b, IF t.b THEN "true" ELSE "false")))

parseStringValue(c, t) == next(alloc(c, String(c.pos, t.s)))

(* Int64.Token is the literal's text; the model keeps "int" for any literal. *)
parseIntValue(c, t) == next(alloc(c, Int64(c.pos, t.i, "int")))

(* parseVariable's write of Referenced on the assignment g found by Get. *)
neverMarkReferenced(A, g) == A

(* parseVariable's write of Referenced, made for an inherited binding too. *)
markReferencedInherited(A, g) == [A EXCEPT ![g.a].Referenced = TRUE]

markReferenced(A, g) == IF g.local THEN [A EXCEPT ![g.a].Referenced = TRUE] ELSE A

parseVariable(c, t) ==
    LET g == IF c.scope = Nil THEN [a |-> Nil, local |-> FALSE]
             ELSE Get(c.scopes[c.scope], t.n)
    IN
    IF c.eval
    THEN IF c.scope = Nil
         THEN [c EXCEPT !.panic = TRUE, !.val = Nil]   \* p.scope.Get on a nil *Scope
         ELSE IF g.a = Nil
         THEN error(c, "variable is not set")
         ELSE LET c1 == [c EXCEPT !.asgs = markReferenced(@, g)]
              IN next(alloc(c1, Variable(t.n, c.pos, c1.asgs[g.a].Value)))
    ELSE LET c1 == alloc(c, NotEvaluated(0))
         IN next(alloc(c1, Variable(t.n, c.pos, c1.val)))

(* parseExpression on each term in turn (the loop of parseListValue): vals. *)
parseExpressions(c, ts) ==
    IF ts = <<>> THEN [c EXCEPT !.vals = <<>>]
    ELSE With(parseExpression(c, Head(ts)), LAMBDA h :
            IF Aborted(h) THEN h
            ELSE With(parseExpressions(h, Tail(ts)), LAMBDA r :
                    IF Aborted(r) THEN r ELSE [r EXCEPT !.vals = <<h.val>> \o @]))

parseListValue(c, t) ==
    With(parseExpressions(next(c), t.xs), LAMBDA r :
       IF Aborted(r) THEN r ELSE next(alloc(r, List(r.vals))))

(* ps is a sequence of [n |-> name, e |-> term]: vals are the properties kept. *)
parsePropertyList(c, ps) ==
    IF ps = <<>> THEN [c EXCEPT !.vals = <<>>]
    ELSE With(parseExpression(next(next(c)), Head(ps).e), LAMBDA h :  \* parseProperty
            IF Aborted(h) THEN h
            ELSE With(alloc(h, Property(Head(ps).n, c.pos, h.val)), LAMBDA h1 :
                 With(parsePropertyList(h1, Tail(ps)), LAMBDA r :
                    IF Aborted(r) THEN r
                    ELSE IF Type(h1.mem, h.val) # UnsetType
                    THEN [r EXCEPT !.vals = <<h1.val>> \o @]
                    ELSE r)))

parseMapValue(c, t) ==
    With(parsePropertyList(next(c), t.ps), LAMBDA r :
       IF Aborted(r) THEN r ELSE next(alloc(r, Map(r.vals))))

parseOperator(c, value1, t) ==
    With(parseExpression(next(c), t), LAMBDA r :
       IF Aborted(r) THEN r
       ELSE With(evaluateOperator(r.mem, r.eval, value1, r.val, c.pos), LAMBDA e :
               IF e.err # "" THEN error([r EXCEPT !.mem = e.mem], e.err)
               ELSE [r EXCEPT !.mem = e.mem, !.val = e.val]))

parseExpression(c, t) ==
    With(parseValue(c, IF t.t \in {"plus", "minus"} THEN t.l ELSE t), LAMBDA v :
       IF Aborted(v) THEN v
       ELSE IF t.t = "plus" THEN parseOperator(v, v.val, t.r)
       ELSE IF t.t = "minus" THEN error(v, "subtraction not supported")
       ELSE v)

parseValue(c, t) ==
    CASE t.t = "bool" -> parseBoolean(c, t)
      [] t.t = "select" -> parseSelect(c, t)
      [] t.t = "var" -> parseVariable(c, t)
      [] t.t = "int" -> parseIntValue(c, t)
      [] t.t = "str" -> parseStringValue(c, t)
      [] t.t = "list" -> parseListValue(c, t)
      [] t.t = "map" -> parseMapValue(c, t)
      [] OTHER -> error(c, "expected bool, list, or string value")

------------------------------------------------------------------------------
(* parseSelect.  A select term is                                             *)
(*   [t |-> "select", multi |-> extra parenthesis, conds |-> <<cond>>,        *)
(*    cases |-> <<case>>]                                                     *)
(*   cond == [fn |-> name, args |-> <<string>>]                               *)
(*   case == [pats |-> <<pat>>, unset |-> the value is `unset`, e |-> term]   *)
(*   pat  == [k |-> "default"] | [k |-> "bool", b] | [k |-> "str", s]         *)
(*           | [k |-> "bad"] (any other token)                                *)

(* ConfigurableCondition.Equals: Args are String structs compared with !=,   *)
(* that is on every field, LiteralPos included.                               *)
Equals(c1, other) ==
    /\ c1.FunctionName = other.FunctionName
    /\ Len(c1.Args) = Len(other.Args)
    /\ \A k \in DOMAIN c1.Args : c1.Args[k] = other.Args[k]

RECURSIVE parseConditionArgs(_, _)
(* The argument loop of one condition: [c, args]. *)
parseConditionArgs(c, strs) ==
    IF strs = <<>> THEN [c |-> c, args |-> <<>>]
    ELSE With(parseConditionArgs(next(next(c)), Tail(strs)), LAMBDA r :
            [c |-> r.c, args |-> <<StringValue(c.pos, Head(strs))>> \o r.args])

RECURSIVE parseConditions(_, _, _)
(* The condition loop: [c, conds], after `conditions` were parsed. *)
parseConditions(c, conditions, terms) ==
    IF terms = <<>> THEN [c |-> c, conds |-> conditions]
    ELSE With(parseConditionArgs(next(next(c)), Head(terms).args), LAMBDA a :
         With(ConfigurableCondition(c.pos, Head(terms).fn, a.args), LAMBDA condition :
            IF \E k \in DOMAIN conditions : Equals(conditions[k], condition)
            THEN [c |-> error(a.c, "Duplicate select condition found"),
                  conds |-> conditions]
            ELSE parseConditions(next(next(a.c)), Append(conditions, condition),
                                 Tail(terms))))

parseOnePattern(c, pat) ==
    CASE pat.k = "default" ->
            alloc(next(c), String(c.pos + 1, default_select_branch_name))
      [] pat.k = "bool" -> alloc(next(c), Bool(c.pos + 1, pat.b, ""))
      [] pat.k = "str" ->
            IF HasSoongPrefix(pat.s)
            THEN error(c, "select branch conditions starting with __soong are reserved for internal use")
            ELSE parseStringValue(c, pat)
      [] OTHER -> error(c, "Expted a string, true, false, or default")

RECURSIVE parsePatterns(_, _)
parsePatterns(c, pats) ==
    IF pats = <<>> THEN [c EXCEPT !.vals = <<>>]
    ELSE With(parseOnePattern(c, Head(pats)), LAMBDA h :
            IF Aborted(h) THEN h
            ELSE With(parsePatterns(next(h), Tail(pats)), LAMBDA r :
                    IF Aborted(r) THEN r ELSE [r EXCEPT !.vals = <<h.val>> \o @]))

(* One iteration of the case loop: val is the SelectCase. *)
parseCase(c, nconds, multi, case) ==
    IF Len(case.pats) # (IF multi THEN nconds ELSE 1)
    THEN error(c, "expected pattern list of the conditions' length")
    ELSE
      With(parsePatterns(c, case.pats), LAMBDA ps :
         IF Aborted(ps) THEN ps
         ELSE
           With(alloc(ps, PatternArray(ps.vals)), LAMBDA c1 :
           With(IF case.unset THEN next(alloc(next(c1), UnsetProperty(c1.pos + 1)))
                ELSE parseExpression(next(c1), case.e), LAMBDA v :
              IF Aborted(v) THEN v
              ELSE next(alloc(v, SelectCase(c1.val, v.val))))))

parseCases(c, nconds, multi, cases) ==
    IF cases = <<>> THEN [c EXCEPT !.vals = <<>>]
    ELSE With(parseCase(c, nconds, multi, Head(cases)), LAMBDA h :
            IF Aborted(h) THEN h
            ELSE With(parseCases(h, nconds, multi, Tail(cases)), LAMBDA r :
                    IF Aborted(r) THEN r ELSE [r EXCEPT !.vals = <<h.val>> \o @]))

patternsEqual(m, a, b) ==
    CASE m[a].kind = "String" -> m[b].kind = "String" /\ m[a].s = m[b].s
      [] m[a].kind = "Bool" -> m[b].kind = "Bool" /\ m[a].b = m[b].b
      [] OTHER -> TRUE

patternListsEqual(m, a, b) ==
    /\ Len(a) = Len(b)
    /\ \A k \in DOMAIN a : patternsEqual(m, a[k], b[k])

(* The patterns of case x (a SelectCase node). *)
Patterns(m, x) == IF m[x].ref = Nil THEN <<>> ELSE m[m[x].ref].kids

isAllDefault(m, x) ==
    \A k \in DOMAIN Patterns(m, x) :
        LET q == m[Patterns(m, x)[k]]
        IN q.kind = "String" /\ q.s = default_select_branch_name

(* The duplicate check alone, without that of the default's place. *)
checkDuplicatesOnly(m, cases, i) ==
    IF \E j, k \in DOMAIN cases :
          j < k /\ patternListsEqual(m, Patterns(m, cases[j]), Patterns(m, cases[k]))
    THEN "Found duplicate select patterns"
    ELSE ""

RECURSIVE checkCases(_, _, _)
(* The duplicate / default-placement loop from index i on: "" or the error. *)
checkCases(m, cases, i) ==
    IF i > Len(cases) THEN ""
    ELSE IF \E j \in (i + 1)..Len(cases) :
                patternListsEqual(m, Patterns(m, cases[i]), Patterns(m, cases[j]))
    THEN "Found duplicate select patterns"
    ELSE IF i < Len(cases) /\ isAllDefault(m, cases[i])
    THEN "Found a default select branch, expected it to be last"
    ELSE checkCases(m, cases, i + 1)

RECURSIVE unifyTypes(_, _, _, _)
(* The type loop from index i on with ty so far: [ty, err]. *)
unifyTypes(m, cases, i, ty) ==
    IF i > Len(cases) THEN [ty |-> ty, err |-> ""]
    ELSE With(Type(m, m[cases[i]].val), LAMBDA otherTy :
         With(IF ty = UnsetType THEN otherTy ELSE ty, LAMBDA ty1 :
            IF otherTy # UnsetType /\ otherTy # ty1
            THEN [ty |-> ty1, err |-> "Found select statement with differing types"]
            ELSE unifyTypes(m, cases, i + 1, ty1)))

parseSelect(c, t) ==
    LET keywordPos == c.pos
        c1 == IF t.multi THEN next(next(next(c))) ELSE next(next(c))
    IN
    IF t.conds = <<>> THEN error(c1, "expected Ident")
    ELSE IF ~t.multi /\ Len(t.conds) > 1 THEN error(c1, "expected {")
    ELSE
      With(parseConditions(c1, <<>>, t.conds), LAMBDA cs :
      IF Aborted(cs.c) THEN cs.c
      ELSE IF t.multi /\ Len(cs.conds) < 2
      THEN error(cs.c, "Expected multiple select conditions due to the extra parenthesis, but only found 1")
      ELSE
        With(parseCases(next(next(cs.c)), Len(cs.conds), t.multi, t.cases), LAMBDA r :
        IF Aborted(r) THEN r
        ELSE IF \A k \in DOMAIN t.cases : t.cases[k].unset     \* !hasNonUnsetValue
        THEN error(r, "This select statement is empty, remove it")
        ELSE
          With(checkCases(r.mem, r.vals, 1), LAMBDA err :
          IF err # "" THEN error(r, err)
          ELSE
            With(unifyTypes(r.mem, r.vals, 1, UnsetType), LAMBDA u :
            IF u.err # "" THEN error(r, u.err)
            ELSE With(alloc(r, ConditionArray(cs.conds)), LAMBDA r1 :
                    next(next(alloc(r1, Select(keywordPos, r1.val, r.vals, Nil, u.ty)))))))))

------------------------------------------------------------------------------
(* Definitions.  A definition term is                                         *)
(*   [d |-> "assign", name, assigner |-> "=" or "+=", e |-> term]             *)
(*   [d |-> "module", typ, ps |-> <<[n, e]>>]                                 *)
(*   [d |-> "bad"]   (a token that starts no definition)                      *)

Module(typ, pos, properties) ==
    [Blank EXCEPT !.kind = "Module", !.s = typ, !.pos = pos, !.kids = properties]

(* The checks of `name += expr` on the binding old (the result of Get):     *)
(* "" when it may be augmented, else the error.                               *)
appendErrorIgnoringReferenced(A, old) ==
    IF old.a = Nil THEN "modified non-existent variable with +="
    ELSE IF ~old.local THEN "modified non-local variable with +="
    ELSE ""

appendError(A, old) ==
    IF old.a = Nil THEN "modified non-existent variable with +="
    ELSE IF ~old.local THEN "modified non-local variable with +="
    ELSE IF A[old.a].Referenced THEN "modified variable with += after referencing"
    ELSE ""

parseAssignment(c, name, assigner, e) ==
    IF name \in {"default", "unset"}
    THEN error(c, "'default' and 'unset' are reserved keywords, and cannot be used as variable names")
    ELSE
      With(parseExpression(next(c), e), LAMBDA v :
      IF Aborted(v) THEN v
      ELSE
        With([v EXCEPT !.asgs = Append(@, Assignment(name, v.val, assigner)),
                       !.val = Len(v.asgs) + 1], LAMBDA c2 :
        IF c2.scope = Nil THEN c2
        ELSE IF assigner = "+="
        THEN With(Get(c2.scopes[c2.scope], name), LAMBDA old :
             With(appendError(c2.asgs, old), LAMBDA err :
                IF err # "" THEN error(c2, err)
                ELSE With(evaluateOperator(c2.mem, c2.eval, c2.asgs[old.a].Value,
                                           v.val, c.pos), LAMBDA r :
                        IF r.err # "" THEN error([c2 EXCEPT !.mem = r.mem], r.err)
                        ELSE [c2 EXCEPT !.mem = r.mem, !.asgs[old.a].Value = r.val])))
        ELSE With(Add(c2.scopes[c2.scope], name, c2.val), LAMBDA r :
                IF r.err # "" THEN error(c2, r.err)
                ELSE [c2 EXCEPT !.scopes[c2.scope] = r.scope])))

parseModule(c, typ, ps) ==
    With(parsePropertyList(next(c), ps), LAMBDA r :
       IF Aborted(r) THEN r ELSE next(alloc(r, Module(typ, c.pos, r.vals))))

(* One iteration of the loop of parseDefinitions: val is the definition. *)
parseDefinition(c, d) ==
    CASE d.d = "assign" -> parseAssignment(next(c), d.name, d.assigner, d.e)
      [] d.d = "module" -> parseModule(next(c), d.typ, d.ps)
      [] OTHER -> error(c, "expected assignment or module definition")

------------------------------------------------------------------------------
(* The package's API as a state machine: a caller creates scopes, adds and   *)
(* removes assignments, and parses files with Parse or ParseAndEval.  A      *)
(* parse is taken one definition at a time (the loop of parseDefinitions);   *)
(* the package is single-threaded, so no other call runs during a parse.     *)
(*                                                                            *)
(* p is the parser of the parse under way (NoParser when none is);           *)
(* ret describes the last call and what it returned (parsed: how many        *)
(* definitions the parse had parsed when it returned; value: the Expression  *)
(* returned), arg is the definition parsed last.  A scanner.Position is taken relative to the definition it   *)
(* lies in.                                                                   *)
(*                                                                            *)
(* Go is garbage collected.  Between two calls the caller drops the result   *)
(* of the last one (Drop): the objects that no scope reaches are collected   *)
(* and the heaps renumbered.  An index only names a pointer, so nothing the  *)
(* package can observe changes.                                               *)

Names == {"x"}

StrTerm(v) == [t |-> "str", s |-> v]
IntTerm(v) == [t |-> "int", i |-> v]
VarTerm(n) == [t |-> "var", n |-> n]
PlusTerm(l, r) == [t |-> "plus", l |-> l, r |-> r]

(* The expressions of the files parsed. *)
FileExpressions == {StrTerm("a"), IntTerm(1), VarTerm("x")}

Assign(name, assigner, e) ==
    [d |-> "assign", name |-> name, assigner |-> assigner, e |-> e]

(* The definitions of the files parsed. *)
FileDefinitions ==
    {Assign(n, a, e) : n \in Names, a \in {"=", "+="}, e \in FileExpressions}
    \cup {Assign("default", "=", StrTerm("a")),
          [d |-> "bad"]}

NoRet ==
    [op |-> "", scope |-> Nil, name |-> "", a |-> Nil, err |-> "",
     nilFile |-> TRUE, Defs |-> <<>>, errs |-> <<>>, panicked |-> FALSE,
     parsed |-> 0, value |-> Nil, removed |-> FALSE]

NoParser ==
    [state |-> "idle", eval |-> FALSE, scope |-> Nil, errors |-> <<>>,
     defs |-> <<>>]

NoArg == [d |-> ""]

Init ==
    /\ mem = <<>>
    /\ asgs = <<>>
    /\ scopes = <<>>
    /\ p = NoParser
    /\ ret = NoRet
    /\ arg = NoArg

------------------------------------------------------------------------------
(* Reachability and collection *)

Range(f) == {f[k] : k \in DOMAIN f}

(* The nodes a node points to, in the order of its fields. *)
Pointers(m, x) == m[x].kids \o <<m[x].val, m[x].ref>>

RECURSIVE Visit(_, _, _)
(* The nodes reachable from the nodes of `stack`, each once, in the order a  *)
(* depth-first walk meets them, after those of `order`.                       *)
Visit(m, stack, order) ==
    IF stack = <<>> THEN order
    ELSE LET x == Head(stack)
         IN IF x = Nil \/ x \in Range(order) THEN Visit(m, Tail(stack), order)
            ELSE Visit(m, Pointers(m, x) \o Tail(stack), Append(order, x))

(* The nodes reachable from the nodes `roots`. *)
Reach(m, roots) == Range(Visit(m, roots, <<>>))

NameOrder == <<"x", "y">>

RECURSIVE AddNew(_, _)
(* The sequence acc followed by the elements of xs that it lacks. *)
AddNew(xs, acc) ==
    IF xs = <<>> THEN acc
    ELSE AddNew(Tail(xs), IF Head(xs) \in Range(acc) THEN acc
                          ELSE Append(acc, Head(xs)))

(* The assignments that table t holds, in the order of the names. *)
HeldBy(t) ==
    SelectSeq([k \in DOMAIN NameOrder |->
                 IF NameOrder[k] \in DOMAIN t THEN t[NameOrder[k]] ELSE Nil],
              LAMBDA a : a # Nil)

RECURSIVE LiveFrom(_, _, _)
(* The assignments that the scopes s.. of S hold, each once, after those of  *)
(* `order`.                                                                   *)
LiveFrom(S, s, order) ==
    IF s > Len(S) THEN order
    ELSE LiveFrom(S, s + 1,
                  AddNew(HeldBy(S[s].inheritedVars), AddNew(HeldBy(S[s].vars), order)))

(* The assignments some scope holds, scope by scope. *)
LiveAsgs(S) == LiveFrom(S, 1, <<>>)

RECURSIVE Roots(_, _, _)
(* The expressions that the assignments live[k..] of A point to. *)
Roots(A, live, k) ==
    IF k > Len(live) THEN <<>>
    ELSE <<A[live[k]].Value, A[live[k]].OrigValue>> \o Roots(A, live, k + 1)

(* The nodes the live assignments reach. *)
LiveNodes(m, A, live) == Visit(m, Roots(A, live, 1), <<>>)

(* The new index of object x, `order` being the live objects. *)
Index(order, x) == IF x = Nil THEN Nil ELSE CHOOSE k \in DOMAIN order : order[k] = x

(* The heaps with only the live objects, renumbered in the order in which    *)
(* the scopes reach them.                                                     *)
Collected(m, A, S) ==
    With(LiveAsgs(S), LAMBDA la :
    With(LiveNodes(m, A, la), LAMBDA ln :
       [mem |-> [k \in DOMAIN ln |->
                    LET n == m[ln[k]]
                    IN [n EXCEPT !.val = Index(ln, @), !.ref = Index(ln, @),
                                 !.kids = [j \in DOMAIN @ |-> Index(ln, @[j])]]],
        asgs |-> [k \in DOMAIN la |->
                    LET a == A[la[k]]
                    IN [a EXCEPT !.Value = Index(ln, @), !.OrigValue = Index(ln, @)]],
        scopes |-> [s \in DOMAIN S |->
                      [vars |-> [n \in DOMAIN S[s].vars |-> Index(la, S[s].vars[n])],
                       inheritedVars |->
                          [n \in DOMAIN S[s].inheritedVars |->
                              Index(la, S[s].inheritedVars[n])]]]]))

------------------------------------------------------------------------------
(* The calls *)

Idle == p.state = "idle"

(* No call is under way and the last result has been dropped. *)
Ready == Idle /\ ret = NoRet

(* The caller drops the last result; the garbage is collected. *)
Drop ==
    /\ Idle
    /\ ret # NoRet
    /\ With(Collected(mem, asgs, scopes), LAMBDA g :
          /\ mem' = g.mem
          /\ asgs' = g.asgs
          /\ scopes' = g.scopes)
    /\ ret' = NoRet
    /\ arg' = NoArg
    /\ UNCHANGED p

(* s := NewScope(parent) *)
CallNewScope(parent) ==
    /\ Ready
    /\ Len(scopes) < MaxScopes
    /\ scopes' = Append(scopes, NewScope(scopes, parent))
    /\ ret' = [NoRet EXCEPT !.op = "NewScope", !.scope = Len(scopes) + 1]
    /\ UNCHANGED <<mem, asgs, p, arg>>

(* s.Add(&Assignment{Name: name, Value: &String{Value: "v"}}) *)
CallAdd(s, name) ==
    /\ Ready
    /\ Len(asgs) < MaxAsgs
    /\ Len(mem) < MaxNodes
    /\ LET value == Len(mem) + 1
           a == Len(asgs) + 1
           r == Add(scopes[s], name, a)
       IN /\ mem' = Append(mem, String(0, "v"))
          /\ asgs' = Append(asgs, Assignment(name, value, "="))
          /\ scopes' = [scopes EXCEPT ![s] = r.scope]
          /\ ret' = [NoRet EXCEPT !.op = "Add", !.scope = s, !.name = name,
                                  !.a = a, !.err = r.err]
    /\ UNCHANGED <<p, arg>>

(* s.Remove(name) *)
CallRemove(s, name) ==
    /\ Ready
    /\ scopes' = [scopes EXCEPT ![s] = Remove(scopes[s], name)]
    /\ ret' = [NoRet EXCEPT !.op = "Remove", !.scope = s, !.name = name]
    /\ UNCHANGED <<mem, asgs, p, arg>>

(* newParser(r, scope), p.eval = eval, and the p.next() that starts parse. *)
newParser(scope, eval) ==
    [NoParser EXCEPT !.state = "parsing", !.eval = eval, !.scope = scope]

(* Parse(filename, r, scope) is entered. *)
CallParse(scope) ==
    /\ Ready
    /\ p' = newParser(scope, FALSE)
    /\ ret' = [NoRet EXCEPT !.op = "Parse", !.scope = scope]
    /\ UNCHANGED <<mem, asgs, scopes, arg>>

(* ParseAndEval(filename, r, scope) is entered. *)
CallParseAndEval(scope) ==
    /\ Ready
    /\ p' = newParser(scope, TRUE)
    /\ ret' = [NoRet EXCEPT !.op = "ParseAndEval", !.scope = scope]
    /\ UNCHANGED <<mem, asgs, scopes, arg>>

Context ==
    [mem |-> mem, asgs |-> asgs, scopes |-> scopes, scope |-> p.scope,
     eval |-> p.eval, errors |-> p.errors, pos |-> 0, val |-> Nil,
     vals |-> <<>>, panic |-> FALSE]

(* What parse returns when errTooManyErrors is recovered, as a partial File. *)
recoverPartialFile(c, defs) ==
    [NoRet EXCEPT !.op = "return", !.scope = c.scope, !.nilFile = FALSE,
                  !.Defs = defs, !.errs = c.errors, !.parsed = Len(defs)]

(* The deferred recover of parse on errTooManyErrors: errs = p.errors, and   *)
(* the named result file keeps its zero value.                                *)
recover(c, defs) ==
    [NoRet EXCEPT !.op = "return", !.scope = c.scope, !.nilFile = TRUE,
                  !.errs = c.errors, !.parsed = Len(defs)]

(* The next definition of the file is parsed.  An error unwinds to parse,    *)
(* which returns; a runtime panic is not recovered and leaves the call.  The *)
(* objects that an unwound definition allocated are unreachable and are not  *)
(* kept in the heaps; its writes to existing assignments are.                 *)
Parsed(c, d) ==
    /\ IF c.panic \/ Aborted(c)
       THEN /\ mem' = mem
            /\ asgs' = [a \in DOMAIN asgs |-> c.asgs[a]]
            /\ scopes' = scopes
            /\ p' = IF c.panic THEN [NoParser EXCEPT !.state = "panicked"]
                    ELSE NoParser
            /\ ret' = IF c.panic
                      THEN [NoRet EXCEPT !.op = "panic", !.scope = c.scope,
                                         !.panicked = TRUE]
                      ELSE recover(c, p.defs)
       ELSE /\ mem' = c.mem
            /\ asgs' = c.asgs
            /\ scopes' = c.scopes
            /\ p' = [p EXCEPT !.defs = Append(@, c.val)]
            /\ ret' = [NoRet EXCEPT !.op = "definition", !.scope = c.scope]
    /\ arg' = d

(* The parse stays within the heaps of the model. *)
Bounded(c) ==
    c.panic \/ Aborted(c) \/ (Len(c.mem) <= MaxNodes /\ Len(c.asgs) <= MaxAsgs)

ParseDefinition(d) ==
    /\ p.state = "parsing"
    /\ With(parseDefinition(Context, d), LAMBDA c : Bounded(c) /\ Parsed(c, d))

(* The file ends: parse returns the File and p.errors. *)
ParseEOF ==
    /\ p.state = "parsing"
    /\ p' = NoParser
    /\ ret' = [NoRet EXCEPT !.op = "return", !.scope = p.scope, !.nilFile = FALSE,
                            !.Defs = p.defs, !.errs = p.errors,
                            !.parsed = Len(p.defs)]
    /\ arg' = NoArg
    /\ UNCHANGED <<mem, asgs, scopes>>

ScopeIds == 1..Len(scopes)

Next ==
    \/ \E parent \in {Nil} \cup ScopeIds : CallNewScope(parent)
    \/ \E s \in ScopeIds, name \in Names : CallAdd(s, name)
    \/ \E s \in ScopeIds, name \in Names : CallRemove(s, name)
    \/ \E s \in {Nil} \cup ScopeIds : CallParse(s)
    \/ \E s \in {Nil} \cup ScopeIds : CallParseAndEval(s)
    \/ \E d \in FileDefinitions : ParseDefinition(d)
    \/ ParseEOF
    \/ Drop

Spec == Init /\ [][Next]_vars

------------------------------------------------------------------------------
(* Properties of the scopes *)

(* The names a table holds. *)
Keys(table) == DOMAIN table

(* C4: in every scope, whatever NewScope, Add, Remove and the parses did,    *)
(* no name is a key of both vars and inheritedVars.                           *)
C4_TablesDisjoint ==
    \A s \in ScopeIds : Keys(scopes[s].vars) \cap Keys(scopes[s].inheritedVars) = {}

(* C4's case: a scope made from a parent holds an inherited name, a second   *)
(* scope holds a name locally, and an Add of a name already held has just    *)
(* been refused.                                                              *)
C4_Witness ==
    /\ ret.op = "Add"
    /\ ret.err = "variable already set in inherited scope"
    /\ \E s \in ScopeIds : Keys(scopes[s].inheritedVars) # {}
    /\ \E s \in ScopeIds : Keys(scopes[s].vars) # {}

(* C5: a call s.Add(a) with a.Name = name returns an error when name is a    *)
(* key of s.vars or of s.inheritedVars, and then leaves both tables as they  *)
(* were; otherwise it returns nil, the only change is vars[name] = a, and    *)
(* Get(name) then returns (a, true).                                          *)
C5_Add ==
    [][ret'.op = "Add" =>
         LET s == ret'.scope
             name == ret'.name
         IN IF name \in Keys(scopes[s].vars) \cup Keys(scopes[s].inheritedVars)
            THEN ret'.err # "" /\ scopes'[s] = scopes[s]
            ELSE /\ ret'.err = ""
                 /\ scopes'[s].inheritedVars = scopes[s].inheritedVars
                 /\ Keys(scopes'[s].vars) = Keys(scopes[s].vars) \cup {name}
                 /\ \A n \in Keys(scopes[s].vars) : scopes'[s].vars[n] = scopes[s].vars[n]
                 /\ scopes'[s].vars[name] = ret'.a
                 /\ Get(scopes'[s], name) = [a |-> ret'.a, local |-> TRUE]]_vars

(* C5's case: an Add has inserted a name that another scope inherits, and   *)
(* Get returns the assignment as local.                                       *)
C5_Witness ==
    /\ ret.op = "Add"
    /\ ret.err = ""
    /\ Get(scopes[ret.scope], ret.name) = [a |-> ret.a, local |-> TRUE]
    /\ \E s \in ScopeIds : ret.name \in Keys(scopes[s].inheritedVars)

------------------------------------------------------------------------------
(* Properties of the parses.  They are stated on the steps of a parse: the   *)
(* step that parses a definition leaves it in arg, and what the parse then   *)
(* did in ret.                                                                *)

(* The step parses the definition `name += expr`. *)
AppendStep == p.state = "parsing" /\ arg'.d = "assign" /\ arg'.assigner = "+="

(* The definition of the step was parsed without error. *)
Succeeded == ret'.op = "definition"

(* The parse of the step returned with an error. *)
Failed == ret'.op = "return" /\ Len(ret'.errs) = maxErrors

(* What the parser's scope holds for the name of the step's definition. *)
Old == Get(scopes[p.scope], arg'.name)

(* The += rule that the binding Old breaks, "" when it breaks none. *)
Broken ==
    IF Old.a = Nil THEN "modified non-existent variable with +="
    ELSE IF ~Old.local THEN "modified non-local variable with +="
    ELSE IF asgs[Old.a].Referenced THEN "modified variable with += after referencing"
    ELSE ""

(* C1, as it holds: when the parser has a scope, `name += expr` succeeds     *)
(* only if the scope holds name, holds it locally, and the binding is not    *)
(* referenced; when one of the three fails the parse returns an error (the   *)
(* one of the rule broken, unless expr itself was in error) and the          *)
(* binding's Value is the expression it was; on success the binding's Value  *)
(* is the Operator that evaluateOperator built from the old Value and expr,  *)
(* of the old Value's type.                                                   *)
C1_Append ==
    [][AppendStep /\ p.scope # Nil =>
         /\ Succeeded => Broken = ""
         /\ Broken # "" =>
               /\ Failed
               /\ ret'.errs[1] \in {Broken, "variable is not set"}
               /\ Old.a # Nil => asgs'[Old.a].Value = asgs[Old.a].Value
         /\ Succeeded =>
               LET value == asgs'[Old.a].Value
                   assignment == asgs'[Len(asgs')]
               IN /\ mem'[value].kind = "Operator"
                  /\ mem'[value].kids = <<asgs[Old.a].Value, assignment.Value>>
                  /\ assignment.Name = arg'.name
                  /\ Type(mem', value) = Type(mem, asgs[Old.a].Value)]_vars

(* C1's case: a `+=` on a local, unreferenced binding has succeeded under    *)
(* ParseAndEval and the binding's Value is the folded Operator.               *)
C1_Witness ==
    /\ ret.op = "definition"
    /\ arg.d = "assign"
    /\ arg.assigner = "+="
    /\ p.eval
    /\ p.scope # Nil
    /\ LET g == Get(scopes[p.scope], arg.name)
       IN g.a # Nil /\ g.local /\ mem[asgs[g.a].Value].kind = "Operator"

(* C1 as stated: a `name += expr` that succeeds has found name bound in the  *)
(* parser's scope, locally and unreferenced.  A parser without a scope       *)
(* (scope nil) accepts every `+=`.                                            *)
C1_AsStated ==
    [][AppendStep /\ Succeeded => p.scope # Nil /\ Broken = ""]_vars

(* The variables that the expression of definition d reads. *)
Reads(d) == IF d.d = "assign" /\ d.e.t = "var" THEN {d.e.n} ELSE {}

(* The step parses a definition. *)
DefinitionStep == p.state = "parsing" /\ arg'.d # ""

(* The step is a call of the package (not the caller dropping a result). *)
CallStep == ret' # NoRet

(* C2, as it holds: under ParseAndEval an expression that reads a name the   *)
(* parser's scope holds locally sets the binding's Referenced, even when the *)
(* definition then fails; a read under Parse, or of a name the scope         *)
(* inherits, leaves every Referenced flag as it was.  A binding that is      *)
(* referenced stays referenced with the Value it has, so no `+=` on it       *)
(* succeeds in the scope that holds it locally.                               *)
C2_Referenced ==
    [][/\ DefinitionStep /\ p.scope # Nil =>
            \A n \in Reads(arg') :
               LET g == Get(scopes[p.scope], n)
               IN g.a # Nil =>
                    IF p.eval /\ g.local THEN asgs'[g.a].Referenced
                    ELSE \A a \in DOMAIN asgs :
                            asgs'[a].Referenced = asgs[a].Referenced
       /\ CallStep =>
            \A a \in DOMAIN asgs :
               asgs[a].Referenced =>
                  asgs'[a].Referenced /\ asgs'[a].Value = asgs[a].Value
       /\ AppendStep /\ p.scope # Nil /\ Old.a # Nil /\ Old.local
            /\ asgs[Old.a].Referenced => Failed]_vars

(* C2's case: ParseAndEval has parsed `x += x` in a scope that holds x       *)
(* locally: the read referenced the binding and the `+=` was refused.        *)
C2_Witness ==
    /\ ret.op = "return"
    /\ ret.errs = <<"modified variable with += after referencing">>
    /\ arg.d = "assign"
    /\ arg.e.t = "var"
    /\ ret.scope # Nil
    /\ LET g == Get(scopes[ret.scope], arg.e.n)
       IN g.a # Nil /\ g.local /\ asgs[g.a].Referenced

(* C2 as stated: in both modes, and whether the scope holds the name locally *)
(* or inherits it, a read sets the binding's Referenced.                      *)
C2_AsStated ==
    [][DefinitionStep /\ p.scope # Nil =>
          \A n \in Reads(arg') :
             LET g == Get(scopes[p.scope], n)
             IN g.a # Nil => asgs'[g.a].Referenced]_vars

(* C3, as it holds: a parse that records an error returns normally with the  *)
(* error list, of maxErrors errors, and a nil File, whatever it had parsed   *)
(* before the error.                                                          *)
C3_ErrorReturn ==
    ret.op = "return" /\ ret.errs # <<>> =>
        /\ ~ret.panicked
        /\ Len(ret.errs) = maxErrors
        /\ ret.nilFile
        /\ ret.Defs = <<>>

(* C3's case: a parse has returned with an error after a definition that it  *)
(* had parsed without error.                                                  *)
C3_Witness ==
    /\ ret.op = "return"
    /\ Len(ret.errs) = maxErrors
    /\ ret.parsed > 0

(* C3 as stated: the parse returns a non-nil File holding the definitions    *)
(* parsed before the error.                                                   *)
C3_AsStated ==
    ret.op = "return" /\ Len(ret.errs) >= maxErrors =>
        ~ret.nilFile /\ Len(ret.Defs) = ret.parsed

------------------------------------------------------------------------------
(* The parse of a select.  Parse or ParseAndEval is called with a scope that *)
(* binds x to a string, on a file that holds the one definition              *)
(* `s = select(...)`, arg; the selects are all those of one or two           *)
(* conditions and at most MaxCases cases over the conditions, patterns and   *)
(* values below.                                                              *)

MaxCases == 2

SelectConditions == {[fn |-> "f", args |-> <<"a">>], [fn |-> "g", args |-> <<>>]}

(* One condition, or two in parentheses. *)
SelectConditionLists ==
    {<<a>> : a \in SelectConditions} \cup {<<a, b>> : a, b \in SelectConditions}

SelectPatterns == {[k |-> "default"], [k |-> "str", s |-> "a"], [k |-> "bool", b |-> TRUE]}

SelectValues ==
    {[unset |-> TRUE, e |-> StrTerm("a")]}
    \cup {[unset |-> FALSE, e |-> e] : e \in {StrTerm("a"), IntTerm(1), VarTerm("x")}}

(* One pattern, or two in parentheses. *)
SelectPatternLists ==
    {<<a>> : a \in SelectPatterns} \cup {<<a, b>> : a, b \in SelectPatterns}

SelectCases ==
    {[pats |-> ps, unset |-> v.unset, e |-> v.e] :
        ps \in SelectPatternLists, v \in SelectValues}

(* Parse or ParseAndEval has been called on the file `s = t`,                *)
(* with the scope that s := NewScope(nil); s.Add(x = "v") made.               *)
InitFile(t) ==
    /\ mem = <<String(0, "v")>>
    /\ asgs = <<Assignment("x", 1, "=")>>
    /\ scopes = <<[vars |-> ("x" :> 1), inheritedVars |-> EmptyTable]>>
    /\ \E eval \in BOOLEAN :
          /\ p = newParser(1, eval)
          /\ ret = [NoRet EXCEPT !.op = IF eval THEN "ParseAndEval" ELSE "Parse",
                                 !.scope = 1]
    /\ arg = Assign("s", "=", t)

(* The definition of the file is parsed. *)
ParseFile ==
    /\ p.state = "parsing"
    /\ p.defs = <<>>
    /\ With(parseDefinition(Context, arg), LAMBDA c : Parsed(c, arg))

InitSelect ==
    \E multi \in BOOLEAN, conds \in SelectConditionLists, k \in 0..MaxCases :
       \E cases \in [1..k -> SelectCases] :
          InitFile([t |-> "select", multi |-> multi, conds |-> conds, cases |-> cases])

NextSelect == ParseFile \/ ParseEOF

SpecSelect == InitSelect /\ [][NextSelect]_vars

(* The Select nodes of the heap. *)
Selects == {x \in DOMAIN mem : mem[x].kind = "Select"}

(* The last parse step reported no error. *)
NoError == ret.op \in {"definition", "return"} /\ ret.errs = <<>>

(* What a pattern matches: its kind and value. *)
PatternValue(x) == [kind |-> mem[x].kind, s |-> mem[x].s, b |-> mem[x].b]

(* The pattern list of case x, as values. *)
PatternValues(x) == [k \in DOMAIN Patterns(mem, x) |-> PatternValue(Patterns(mem, x)[k])]

DefaultPattern == [kind |-> "String", s |-> default_select_branch_name, b |-> FALSE]

(* C6: after a parse step without error, every Select of the heap has no two *)
(* cases with equal pattern lists, has no all-default case before its last   *)
(* case, has in ExpressionType the type of every case value that is not      *)
(* unset, and has a case value that is not unset; in both modes, with one    *)
(* condition or several.                                                      *)
C6_SelectWellFormed ==
    NoError =>
      \A x \in Selects :
         LET cases == mem[x].kids
         IN /\ \A i, j \in DOMAIN cases :
                  i # j => PatternValues(cases[i]) # PatternValues(cases[j])
            /\ \A i \in DOMAIN cases :
                  i < Len(cases) =>
                     \E k \in DOMAIN PatternValues(cases[i]) :
                        PatternValues(cases[i])[k] # DefaultPattern
            /\ \A i \in DOMAIN cases :
                  Type(mem, mem[cases[i]].val) # UnsetType =>
                     Type(mem, mem[cases[i]].val) = mem[x].ty
            /\ \E i \in DOMAIN cases : Type(mem, mem[cases[i]].val) # UnsetType

(* C6's case: ParseAndEval has returned a select of two conditions whose     *)
(* first case is unset and whose last case is the default one.                *)
C6_Witness ==
    /\ ret.op = "return"
    /\ ret.errs = <<>>
    /\ ~ret.nilFile
    /\ \E x \in Selects :
          /\ Len(mem[mem[x].ref].conds) = 2
          /\ Len(mem[x].kids) = 2
          /\ Type(mem, mem[mem[x].kids[1]].val) = UnsetType
          /\ PatternValues(mem[x].kids[2]) = <<DefaultPattern, DefaultPattern>>
          /\ mem[x].ty = StringType
          /\ mem[mem[mem[x].kids[2]].val].kind = "Variable"

(* What a condition tests: its function name and argument strings. *)
ConditionValue(c) ==
    [fn |-> c.FunctionName, args |-> [k \in DOMAIN c.Args |-> c.Args[k].Value]]

(* C7 as stated: after a parse step without error no Select of the heap has  *)
(* two conditions with the same function name and the same argument strings. *)
C7_AsStated ==
    NoError =>
      \A x \in Selects :
         LET conditions == mem[mem[x].ref].conds
         IN \A i, j \in DOMAIN conditions :
               i # j => ConditionValue(conditions[i]) # ConditionValue(conditions[j])

(* C7's failing input: select((f("a"), f("a")), {...}) has been parsed       *)
(* without error.                                                             *)
C7_Witness ==
    /\ NoError
    /\ \E x \in Selects :
          LET conditions == mem[mem[x].ref].conds
          IN /\ Len(conditions) = 2
             /\ ConditionValue(conditions[1]) = [fn |-> "f", args |-> <<"a">>]
             /\ ConditionValue(conditions[2]) = [fn |-> "f", args |-> <<"a">>]

------------------------------------------------------------------------------
(* Copy.  A file `s = t` is parsed, the caller copies an expression of the   *)
(* File returned and then writes to an object that the copy reaches.          *)

ListTerm(xs) == [t |-> "list", xs |-> xs]
MapTerm(ps) == [t |-> "map", ps |-> ps]
BoolTerm(b) == [t |-> "bool", b |-> b]

(* select(f("a"), {"a": "a", default: unset}) *)
SelectTerm ==
    [t |-> "select", multi |-> FALSE, conds |-> <<[fn |-> "f", args |-> <<"a">>]>>,
     cases |-> <<[pats |-> <<[k |-> "str", s |-> "a"]>>, unset |-> FALSE,
                  e |-> StrTerm("a")],
                 [pats |-> <<[k |-> "default"]>>, unset |-> TRUE, e |-> StrTerm("a")]>>]

CopyTerms ==
    {BoolTerm(TRUE), StrTerm("a"), IntTerm(1), VarTerm("x"),
     ListTerm(<<StrTerm("a")>>), ListTerm(<<VarTerm("x")>>),
     MapTerm(<<[n |-> "k", e |-> StrTerm("a")]>>),
     MapTerm(<<[n |-> "k", e |-> ListTerm(<<IntTerm(1)>>)]>>),
     PlusTerm(StrTerm("a"), StrTerm("a")), PlusTerm(VarTerm("x"), StrTerm("a")),
     SelectTerm}

(* The kinds of node that are an Expression. *)
ExpressionKinds ==
    {"Bool", "String", "Int64", "List", "Map", "Variable", "Operator", "Select",
     "NotEvaluated", "UnsetProperty"}

(* NotEvaluated and UnsetProperty are structs held by value: no pointer to   *)
(* one exists through which it could be written.                              *)
ValueKinds == {"NotEvaluated", "UnsetProperty"}

(* The expressions that expression x reaches, x included. *)
Expressions(m, x) == {y \in Reach(m, <<x>>) : m[y].kind \in ExpressionKinds}

RECURSIVE Structure(_, _)
(* The tree that x unfolds to: what x looks like to a reader of its fields. *)
Structure(m, x) ==
    IF x = Nil THEN [kind |-> "nil"]
    ELSE [m[x] EXCEPT !.kids = [k \in DOMAIN @ |-> Structure(m, @[k])],
                      !.val = Structure(m, @),
                      !.ref = Structure(m, @)]

(* A write to a field of the object n: an element of a backing array, or a   *)
(* field of a node (Value, Name, Token).                                      *)
Written(n) ==
    CASE n.kind = "[]Expression" -> [n EXCEPT !.kids[1] = Nil]
      [] n.kind = "[]ConfigurableCondition" ->
            [n EXCEPT !.conds[1].FunctionName = "written"]
      [] n.kind \in {"List", "Map"} -> [n EXCEPT !.kids = <<>>]
      [] OTHER -> [n EXCEPT !.s = "written"]

(* The Expression that the File returned holds for `s`. *)
FileValue == asgs[ret.Defs[1]].Value

(* copy := e.Copy(), e an expression of the File returned. *)
CallCopy(e) ==
    /\ ret.op = "return"
    /\ ~ret.nilFile
    /\ ret.Defs # <<>>
    /\ e \in Expressions(mem, FileValue)
    /\ With(Copy(mem, e), LAMBDA r :
          /\ mem' = r.mem
          /\ ret' = [NoRet EXCEPT !.op = "Copy", !.value = r.id])
    /\ arg' = [d |-> "Copy", e |-> e, structure |-> Structure(mem, e)]
    /\ UNCHANGED <<asgs, scopes, p>>

(* The caller writes to object x, which the copy reaches. *)
Write(x) ==
    /\ ret.op = "Copy"
    /\ x \in Reach(mem, <<ret.value>>)
    /\ mem[x].kind \notin ValueKinds
    /\ mem' = [mem EXCEPT ![x] = Written(@)]
    /\ ret' = [ret EXCEPT !.op = "Write"]
    /\ UNCHANGED <<asgs, scopes, p, arg>>

InitCopy == \E t \in CopyTerms : InitFile(t)

NextCopy ==
    \/ ParseFile
    \/ ParseEOF
    \/ \E e \in DOMAIN mem : CallCopy(e)
    \/ \E x \in DOMAIN mem : Write(x)

SpecCopy == InitCopy /\ [][NextCopy]_vars

(* C8 as stated: the copy of an expression unfolds to the same tree as the   *)
(* expression, and after a write to any object that the copy reaches the     *)
(* expression still unfolds to the tree that it was.                          *)
C8_AsStated ==
    /\ ret.op = "Copy" => Structure(mem, ret.value) = arg.structure
    /\ ret.op \in {"Copy", "Write"} => Structure(mem, arg.e) = arg.structure

(* C8's failing input: the Variable x that ParseAndEval returned was copied, *)
(* and a write to the String that copy.Value points to has changed the       *)
(* original, and the Value of the scope's binding of x with it.               *)
C8_Witness ==
    /\ ret.op = "Write"
    /\ mem[arg.e].kind = "Variable"
    /\ mem[arg.e].val = asgs[1].Value
    /\ Structure(mem, arg.e) # arg.structure
    /\ mem[mem[arg.e].val].s = "written"

------------------------------------------------------------------------------
(* evaluateOperator.  A file `s = [...]` that holds the operands has been    *)
(* parsed; the parser then folds value1 + value2, for any two expressions    *)
(* that it holds.  An expression of Type unset comes from a select case.     *)

(* select(f("a"), {"a": ["a"], default: unset}) *)
ListSelectTerm ==
    [t |-> "select", multi |-> FALSE, conds |-> <<[fn |-> "f", args |-> <<"a">>]>>,
     cases |-> <<[pats |-> <<[k |-> "str", s |-> "a"]>>, unset |-> FALSE,
                  e |-> ListTerm(<<StrTerm("a")>>)],
                 [pats |-> <<[k |-> "default"]>>, unset |-> TRUE, e |-> StrTerm("a")]>>]

OperandTerms ==
    {ListTerm(<<StrTerm("a"), IntTerm(1), VarTerm("x"), SelectTerm, ListSelectTerm,
                MapTerm(<<[n |-> "k", e |-> StrTerm("a")]>>), BoolTerm(TRUE),
                PlusTerm(StrTerm("a"), StrTerm("b"))>>)}

(* value, err := p.evaluateOperator(value1, value2, '+', pos) *)
CallEvaluateOperator(value1, value2) ==
    /\ ret.op = "definition"
    /\ {value1, value2} \subseteq Expressions(mem, asgs[p.defs[1]].Value)
    /\ With(evaluateOperator(mem, p.eval, value1, value2, 0), LAMBDA r :
          /\ mem' = r.mem
          /\ ret' = [NoRet EXCEPT !.op = "evaluateOperator", !.value = r.val,
                                  !.err = r.err])
    /\ arg' = [d |-> "evaluateOperator", value1 |-> value1, value2 |-> value2]
    /\ UNCHANGED <<asgs, scopes, p>>

InitOp == \E t \in OperandTerms : InitFile(t)

NextOp ==
    \/ ParseFile
    \/ \E value1, value2 \in DOMAIN mem : CallEvaluateOperator(value1, value2)

SpecOp == InitOp /\ [][NextOp]_vars

(* The step is evaluateOperator(value1, value2) with an operand of Type      *)
(* unset.                                                                     *)
UnsetStep ==
    /\ ret'.op = "evaluateOperator"
    /\ UnsetType \in {Type(mem, arg'.value1), Type(mem, arg'.value2)}

(* The operand that evaluateOperator returns for an unset operand. *)
Other ==
    IF Type(mem, arg'.value1) = UnsetType THEN arg'.value2 ELSE arg'.value1

(* C9, as it holds: when an operand of evaluateOperator has Type unset, it   *)
(* returns the other operand itself (value2 when value1 is unset, else       *)
(* value1) and no error, in both modes; it allocates nothing, so no Operator *)
(* node over the pair exists.                                                 *)
C9_UnsetOperand ==
    [][UnsetStep =>
          /\ ret'.err = ""
          /\ ret'.value = Other
          /\ mem' = mem]_vars

(* C9's case: value1 was unset and value2 a String, and value2 was returned. *)
C9_Witness ==
    /\ ret.op = "evaluateOperator"
    /\ p.eval
    /\ Type(mem, arg.value1) = UnsetType
    /\ mem[arg.value2].kind = "String"
    /\ ret.value = arg.value2

(* C9 as stated: with an unset operand, the result is an Operator over the   *)
(* pair whose Value is the other operand.                                     *)
C9_AsStated ==
    [][UnsetStep =>
          /\ mem'[ret'.value].kind = "Operator"
          /\ mem'[ret'.value].kids = <<arg'.value1, arg'.value2>>
          /\ mem'[ret'.value].val = Other]_vars

(* The operands of the last evaluateOperator, evaluated. *)
E1 == Eval(mem, arg.value1)
E2 == Eval(mem, arg.value2)

(* evaluateOperator was called with evaluation on, on operands of one Type   *)
(* that is not unset, exactly one of which is a Select after Eval.           *)
OneSelect ==
    /\ ret.op = "evaluateOperator"
    /\ p.eval
    /\ Type(mem, arg.value1) # UnsetType
    /\ Type(mem, E1) = Type(mem, E2)
    /\ (mem[E1].kind = "Select") # (mem[E2].kind = "Select")

(* The Value of the Operator returned. *)
Folded == mem[ret.value].val

(* C10, as it holds: when the left operand is the one that is not a Select,  *)
(* the folded value is a singleton Select of the operand's Type, whose one   *)
(* case holds a copy of the operand and no patterns, and whose Append is the *)
(* right operand, a Select.  When the right operand is the one that is not a *)
(* Select, nothing is promoted: the folded value is a copy of the left       *)
(* Select whose Append is the right operand itself.                           *)
C10_Promotion ==
    OneSelect =>
       /\ ret.err = ""
       /\ mem[ret.value].kind = "Operator"
       /\ mem[Folded].kind = "Select"
       /\ mem[Folded].val = E2
       /\ IF mem[E1].kind # "Select"
          THEN /\ mem[E2].kind = "Select"
               /\ Len(mem[Folded].kids) = 1
               /\ Patterns(mem, mem[Folded].kids[1]) = <<>>
               /\ mem[Folded].ty = Type(mem, E1)
               /\ Structure(mem, mem[mem[Folded].kids[1]].val) = Structure(mem, E1)
          ELSE /\ mem[E2].kind # "Select"
               /\ Structure(mem, Folded) =
                     [Structure(mem, E1) EXCEPT !.val = Structure(mem, E2)]

(* C10's case: "a" + select(...) was folded: the String was promoted.        *)
C10_Witness ==
    /\ OneSelect
    /\ mem[E1].kind = "String"
    /\ mem[E2].kind = "Select"
    /\ mem[Folded].kind = "Select"
    /\ mem[mem[mem[Folded].kids[1]].val].kind = "String"

(* C10 as stated: whichever side the operand that is not a Select is on, the *)
(* folded value is a Select whose Append is a Select.                         *)
C10_AsStated ==
    OneSelect =>
       /\ mem[Folded].kind = "Select"
       /\ mem[mem[Folded].val].kind = "Select"

------------------------------------------------------------------------------
(* addMaps.  A file `s = [{...}, {...}, ...]` that holds the maps has been   *)
(* parsed; the parser then merges the property lists of any two of them.     *)
(* addMaps is called by evaluateOperator, and so with evaluation on.         *)

Prop(n, e) == [n |-> n, e |-> e]

MapTerms ==
    <<MapTerm(<<>>),
      MapTerm(<<Prop("a", StrTerm("x"))>>),
      MapTerm(<<Prop("b", StrTerm("y"))>>),
      MapTerm(<<Prop("c", StrTerm("z"))>>),
      MapTerm(<<Prop("a", StrTerm("x")), Prop("b", StrTerm("y"))>>),
      MapTerm(<<Prop("b", StrTerm("y")), Prop("a", StrTerm("x"))>>),
      MapTerm(<<Prop("c", StrTerm("z")), Prop("a", StrTerm("x"))>>),
      MapTerm(<<Prop("a", IntTerm(1))>>),
      MapTerm(<<Prop("a", StrTerm("x")), Prop("a", StrTerm("z"))>>),
      MapTerm(<<Prop("n", MapTerm(<<Prop("a", StrTerm("x"))>>))>>),
      MapTerm(<<Prop("n", MapTerm(<<Prop("b", StrTerm("y"))>>))>>)>>

(* The Map nodes of the heap. *)
Maps == {x \in DOMAIN mem : mem[x].kind = "Map"}

(* v.Properties, err = p.addMaps(v.Properties, the Properties of e2, pos) *)
CallAddMaps(map1, map2) ==
    /\ ret.op = "definition"
    /\ p.eval
    /\ {map1, map2} \subseteq Maps
    /\ With(addMaps(mem, p.eval, mem[map1].kids, mem[map2].kids, 0), LAMBDA r :
          /\ mem' = r.mem
          /\ ret' = [NoRet EXCEPT !.op = "addMaps", !.err = r.err]
          /\ arg' = [d |-> "addMaps", map1 |-> mem[map1].kids,
                     map2 |-> mem[map2].kids, props |-> r.props])
    /\ UNCHANGED <<asgs, scopes, p>>

InitMaps == InitFile(ListTerm(MapTerms))

NextMaps ==
    \/ ParseFile
    \/ \E map1, map2 \in DOMAIN mem : CallAddMaps(map1, map2)

SpecMaps == InitMaps /\ [][NextMaps]_vars

(* addMaps(arg.map1, arg.map2) has returned arg.props and no error. *)
Merged == ret.op = "addMaps" /\ ret.err = ""

(* The names of a property list, in its order. *)
NamesOf(props) == [k \in DOMAIN props |-> mem[props[k]].s]

(* The properties of map2 whose names do not occur in map1, in map2's order. *)
RightOnly(map1, map2) ==
    SelectSeq(map2, LAMBDA q : mem[q].s \notin Range(NamesOf(map1)))

Disjoint(map1, map2) == Range(NamesOf(map1)) \cap Range(NamesOf(map2)) = {}

(* The property lists of the maps of the file. *)
PropertyLists == {mem[x].kids : x \in Maps}

(* C11: the list that addMaps(map1, map2) returns holds, for each property   *)
(* of map1 in map1's order, that property itself when map2 has no property   *)
(* of its name, and else a property of the same name whose value is the      *)
(* Operator `+` over its value and the value of a property of map2 of that   *)
(* name; then the properties of map2 whose names map1 lacks, in map2's       *)
(* order.  For maps without a common key that is map1's list followed by     *)
(* map2's, and merging such maps is associative.                              *)
C11_AddMaps ==
    Merged =>
       /\ Len(arg.props) = Len(arg.map1) + Len(RightOnly(arg.map1, arg.map2))
       /\ \A k \in DOMAIN arg.map1 :
             IF mem[arg.map1[k]].s \notin Range(NamesOf(arg.map2))
             THEN arg.props[k] = arg.map1[k]
             ELSE /\ mem[arg.props[k]].kind = "Property"
                  /\ mem[arg.props[k]].s = mem[arg.map1[k]].s
                  /\ mem[mem[arg.props[k]].val].kind = "Operator"
                  /\ mem[mem[arg.props[k]].val].kids[1] = mem[arg.map1[k]].val
                  /\ \E j \in DOMAIN arg.map2 :
                        /\ mem[arg.map2[j]].s = mem[arg.map1[k]].s
                        /\ mem[mem[arg.props[k]].val].kids[2] = mem[arg.map2[j]].val
       /\ SubSeq(arg.props, Len(arg.map1) + 1, Len(arg.props))
             = RightOnly(arg.map1, arg.map2)
       /\ Disjoint(arg.map1, arg.map2) =>
             /\ arg.props = arg.map1 \o arg.map2
             /\ \A map3 \in PropertyLists :
                   Disjoint(arg.map1, map3) /\ Disjoint(arg.map2, map3) =>
                      addMaps(mem, TRUE, arg.props, map3, 0).props
                         = addMaps(mem, TRUE, arg.map1,
                                   addMaps(mem, TRUE, arg.map2, map3, 0).props, 0).props

(* C11's case: {a, b} was merged with {c, a}: b is in map1 only, a in both,   *)
(* c in map2 only.                                                            *)
C11_Witness ==
    /\ Merged
    /\ NamesOf(arg.map1) = <<"a", "b">>
    /\ NamesOf(arg.map2) = <<"c", "a">>
    /\ NamesOf(arg.props) = <<"a", "b", "c">>

------------------------------------------------------------------------------
(* The two modes.  A caller has made a scope with a parent:                  *)
(*    parent := NewScope(nil); parent.Add(y = "v"); s := NewScope(parent);   *)
(*    s.Add(x = "v"); s.Add(r = "v"); s.Add(b = true);                       *)
(*    ParseAndEval of `m { k: r }` with s                                    *)
(* so that s holds x, r and b locally, r is referenced, and s inherits y.   *)
(* Parse or ParseAndEval is then called with s on a file of one definition. *)

ModeNames == {"x", "y", "r", "b", "u"}

ModeDefinitions ==
    {Assign(n, "+=", e) :
        n \in ModeNames,
        e \in {StrTerm("a"), IntTerm(1), BoolTerm(TRUE), VarTerm("u"), VarTerm("x")}}
    \cup {Assign("s", "=", e) :
        e \in {VarTerm("u"), VarTerm("x"), PlusTerm(StrTerm("a"), IntTerm(1)),
               PlusTerm(BoolTerm(TRUE), BoolTerm(TRUE)),
               PlusTerm(StrTerm("a"), StrTerm("a")),
               PlusTerm(VarTerm("x"), IntTerm(1))}}

InitModes ==
    /\ mem = <<String(0, "v"), String(0, "v"), String(0, "v"), Bool(0, TRUE, "true")>>
    /\ asgs = <<Assignment("y", 1, "="), Assignment("x", 2, "="),
                [Assignment("r", 3, "=") EXCEPT !.Referenced = TRUE],
                Assignment("b", 4, "=")>>
    /\ scopes = <<[vars |-> ("y" :> 1), inheritedVars |-> EmptyTable],
                  [vars |-> ("x" :> 2) @@ ("r" :> 3) @@ ("b" :> 4),
                   inheritedVars |-> ("y" :> 1)]>>
    /\ \E eval \in BOOLEAN :
          /\ p = newParser(2, eval)
          /\ ret = [NoRet EXCEPT !.op = IF eval THEN "ParseAndEval" ELSE "Parse",
                                 !.scope = 2]
    /\ arg \in ModeDefinitions

NextModes == ParseFile \/ ParseEOF

SpecModes == InitModes /\ [][NextModes]_vars

(* The step parses the definition of the file, arg. *)
FileStep == p.state = "parsing" /\ p.defs = <<>> /\ arg' = arg

(* The errors of an expression that evaluation finds. *)
EvaluationErrors ==
    {"variable is not set", "mismatched type in operator +",
     "operator + not supported on type"}

(* The errors of the rules of +=. *)
AppendErrors ==
    {"modified non-existent variable with +=", "modified non-local variable with +=",
     "modified variable with += after referencing"}

(* The rule of += that the name n breaks in the parser's scope, or "". *)
RuleBroken(n) ==
    LET s == scopes[p.scope] IN
    IF n \notin DOMAIN s.vars \cup DOMAIN s.inheritedVars
    THEN "modified non-existent variable with +="
    ELSE IF n \notin DOMAIN s.vars THEN "modified non-local variable with +="
    ELSE IF asgs[s.vars[n]].Referenced
    THEN "modified variable with += after referencing"
    ELSE ""

(* C12, as it holds: an unknown variable, a type mismatch in `+` and a `+`   *)
(* on an unsupported type are errors under ParseAndEval and are not reported *)
(* by Parse.  The rules of += do not depend on the mode: with a non-nil      *)
(* scope, `name += e` on a missing, non-local or already referenced variable *)
(* is an error under Parse as well as under ParseAndEval (where an error of  *)
(* e itself comes first).                                                     *)
C12_Modes ==
    [][FileStep =>
          /\ ~p.eval => \A k \in DOMAIN ret'.errs : ret'.errs[k] \notin EvaluationErrors
          /\ p.eval /\ arg.e = VarTerm("u") => ret'.errs = <<"variable is not set">>
          /\ p.eval /\ arg.e = PlusTerm(StrTerm("a"), IntTerm(1))
                => ret'.errs = <<"mismatched type in operator +">>
          /\ p.eval /\ arg.e = PlusTerm(BoolTerm(TRUE), BoolTerm(TRUE))
                => ret'.errs = <<"operator + not supported on type">>
          /\ /\ arg.assigner = "+="
             /\ ~p.eval \/ arg.e # VarTerm("u")
             /\ RuleBroken(arg.name) # ""
             => ret'.errs = <<RuleBroken(arg.name)>>]_vars

(* C12's case: Parse of `u += u`, u not set, reported the rule of += (under  *)
(* ParseAndEval the error is that u is not set).                              *)
C12_Witness ==
    /\ ret.op = "return"
    /\ arg = Assign("u", "+=", VarTerm("u"))
    /\ ret.errs = <<"modified non-existent variable with +=">>

(* C12 as stated: Parse with a non-nil scope reports none of the semantic    *)
(* errors, those of += included.                                              *)
C12_AsStated ==
    [][FileStep /\ ~p.eval =>
          \A k \in DOMAIN ret'.errs :
             ret'.errs[k] \notin EvaluationErrors \cup AppendErrors]_vars

------------------------------------------------------------------------------
(* A file of several definitions.  Parse or ParseAndEval is called with      *)
(* s := NewScope(nil) on a file of at most MaxDefs definitions of x.         *)

MaxDefs == 3

AssignedExpressions ==
    {StrTerm("a"), ListTerm(<<StrTerm("a")>>), MapTerm(<<Prop("k", StrTerm("a"))>>),
     PlusTerm(SelectTerm, StrTerm("a")), VarTerm("x")}

AppendedExpressions ==
    {StrTerm("b"), ListTerm(<<StrTerm("b")>>), MapTerm(<<Prop("k", StrTerm("b"))>>),
     IntTerm(1), VarTerm("x")}

SeveralDefinitions ==
    {Assign("x", "=", e) : e \in AssignedExpressions}
    \cup {Assign("x", "+=", e) : e \in AppendedExpressions}

InitSeveral ==
    /\ mem = <<>>
    /\ asgs = <<>>
    /\ scopes = <<NewScope(<<>>, Nil)>>
    /\ \E eval \in BOOLEAN :
          /\ p = newParser(1, eval)
          /\ ret = [NoRet EXCEPT !.op = IF eval THEN "ParseAndEval" ELSE "Parse",
                                 !.scope = 1]
    /\ arg = NoArg

(* The next definition of the file is parsed. *)
ParseNext(d) ==
    /\ p.state = "parsing"
    /\ Len(p.defs) < MaxDefs
    /\ With(parseDefinition(Context, d), LAMBDA c : Parsed(c, d))

NextSeveral ==
    \/ \E d \in SeveralDefinitions : ParseNext(d)
    \/ ParseEOF

SpecSeveral == InitSeveral /\ [][NextSeveral]_vars

(* The step parses a definition with success. *)
DefinitionParsed == p.state = "parsing" /\ ret'.op = "definition"

(* The binding of x in the parser's scope. *)
Binding == scopes[p.scope].vars["x"]

(* C13: a parsed `name = expr` makes a binding whose Value and OrigValue are *)
(* the same expression.  Every successful `name += e` leaves the OrigValue   *)
(* of every assignment pointing where it did, to an expression whose content *)
(* is unchanged, and stores in the binding's Value a node that it allocated. *)
C13_OrigValue ==
    [][DefinitionParsed =>
          /\ \A a \in DOMAIN asgs :
                /\ asgs'[a].OrigValue = asgs[a].OrigValue
                /\ Structure(mem', asgs[a].OrigValue) = Structure(mem, asgs[a].OrigValue)
          /\ arg'.assigner = "=" =>
                /\ asgs'[Binding'].Value = asgs'[Binding'].OrigValue
                /\ Binding' \notin DOMAIN asgs
          /\ arg'.assigner = "+=" =>
                /\ Binding' = Binding
                /\ asgs'[Binding].Value \notin DOMAIN mem
                /\ asgs'[Binding].Value # asgs'[Binding].OrigValue]_vars

(* C13's case: `x = "a"`, `x += "b"`, `x += "b"` under ParseAndEval: Value   *)
(* evaluates to "abb" and OrigValue is the "a" of the first statement.       *)
C13_Witness ==
    /\ p.state = "parsing"
    /\ p.eval
    /\ Len(p.defs) = 3
    /\ mem[Eval(mem, asgs[p.defs[1]].Value)].s = "abb"
    /\ mem[asgs[p.defs[1]].OrigValue].s = "a"

------------------------------------------------------------------------------
(* ParseExpression.  It is called on the text of an expression e, followed   *)
(* (rest) or not by another token.  It makes its own scope and does not      *)
(* evaluate.  It defers no recover: the panic of p.error leaves it.          *)

ExpressionLeaves ==
    {StrTerm("a"), IntTerm(1), BoolTerm(TRUE), VarTerm("x"), [t |-> "bad"]}

ExpressionTerms ==
    ExpressionLeaves
    \cup {PlusTerm(l, r) : l, r \in ExpressionLeaves}
    \cup {ListTerm(<<l>>) : l \in ExpressionLeaves}
    \cup {ListTerm(<<l, r>>) : l, r \in ExpressionLeaves}
    \cup {MapTerm(<<Prop("k", l)>>) : l \in ExpressionLeaves}

CallParseExpression(e, rest) ==
    /\ ret.op = ""
    /\ arg' = [d |-> "ParseExpression", e |-> e, rest |-> rest]
    /\ With(parseExpression(
               [mem |-> mem, asgs |-> asgs,
                scopes |-> Append(scopes, NewScope(scopes, Nil)),
                scope |-> Len(scopes) + 1, eval |-> FALSE, errors |-> <<>>,
                pos |-> 0, val |-> Nil, vals |-> <<>>, panic |-> FALSE], e),
            LAMBDA v :
          With(IF Aborted(v) \/ ~rest THEN v          \* p.accept(scanner.EOF)
               ELSE error(v, "expected EOF"), LAMBDA c :
             IF Aborted(c)
             THEN /\ ret' = [NoRet EXCEPT !.op = "panic", !.panicked = TRUE]
                  /\ mem' = mem
             ELSE /\ ret' = [NoRet EXCEPT !.op = "ParseExpression", !.value = c.val,
                                          !.errs = c.errors]
                  /\ mem' = c.mem))
    /\ UNCHANGED <<asgs, scopes, p>>

NextExpression ==
    \E e \in ExpressionTerms, rest \in BOOLEAN : CallParseExpression(e, rest)

SpecExpression == Init /\ [][NextExpression]_vars

(* C14 as stated: a call of ParseExpression returns to its caller, with the  *)
(* errors of the input in its error list; the too-many-errors panic of the   *)
(* parser does not leave ParseExpression.                                     *)
C14_AsStated == arg.d = "ParseExpression" => ~ret.panicked

(* C14's case: ParseExpression on `]`, which is no expression, panicked. *)
C14_Witness ==
    /\ arg.d = "ParseExpression"
    /\ arg.e = [t |-> "bad"]
    /\ ~arg.rest
    /\ ret.panicked
    /\ ret.errs = <<>>

------------------------------------------------------------------------------
(* Eval, over the expressions that the parses and folds of SpecOp build. *)

(* The Expression nodes of the heap. *)
ExpressionNodes == {x \in DOMAIN mem : mem[x].kind \in ExpressionKinds}

------------------------------------------------------------------------------
(* The mutators of Map.  A file `s = {...}` has been parsed and the caller   *)
(* calls MovePropertyContents on its Map.  RemoveStringFromList and          *)
(* AddStringToList are not part of ast.go and are taken from what the        *)
(* specification says of them: the first removes the first String of the     *)
(* list with the value, the second appends a new String with the value.     *)

(* x.getPropertyImpl(name): the index of the first property of that name,   *)
(* 0 when there is none (found = false).                                      *)
getPropertyImpl(m, x, name) ==
    IF \E k \in DOMAIN m[x].kids : m[m[x].kids[k]].s = name
    THEN CHOOSE k \in DOMAIN m[x].kids :
            /\ m[m[x].kids[k]].s = name
            /\ \A j \in 1..(k - 1) : m[m[x].kids[j]].s # name
    ELSE 0

(* xs without its element at index k. *)
RemoveAt(xs, k) == SubSeq(xs, 1, k - 1) \o SubSeq(xs, k + 1, Len(xs))

(* x.RemoveProperty(propertyName): the heap afterwards. *)
RemoveProperty(m, x, propertyName) ==
    LET index == getPropertyImpl(m, x, propertyName)
    IN IF index # 0 THEN [m EXCEPT ![x].kids = RemoveAt(@, index)] ELSE m

RemoveStringFromList(m, list, s) ==
    IF \E k \in DOMAIN m[list].kids :
          m[m[list].kids[k]].kind = "String" /\ m[m[list].kids[k]].s = s
    THEN LET i == CHOOSE k \in DOMAIN m[list].kids :
                     /\ m[m[list].kids[k]].kind = "String" /\ m[m[list].kids[k]].s = s
                     /\ \A j \in 1..(k - 1) :
                           ~(m[m[list].kids[j]].kind = "String" /\ m[m[list].kids[j]].s = s)
         IN [m EXCEPT ![list].kids = RemoveAt(@, i)]
    ELSE m

AddStringToList(m, list, s) ==
    [Append(m, String(0, s)) EXCEPT ![list].kids = Append(@, Len(m) + 1)]

RECURSIVE MoveStrings(_, _, _, _)
(* for _, moved := range toBeMoved { RemoveStringFromList; AddStringToList } *)
MoveStrings(m, old, new, toBeMoved) ==
    IF toBeMoved = <<>> THEN m
    ELSE MoveStrings(AddStringToList(RemoveStringFromList(m, old, Head(toBeMoved)),
                                     new, Head(toBeMoved)),
                     old, new, Tail(toBeMoved))

(* x.MovePropertyContents(propertyName, newLocation):                        *)
(* [mem |-> the heap afterwards, removed |-> the result, panic |-> whether   *)
(* the type assertion of an element to a String failed].                     *)
MovePropertyContents(m, x, propertyName, newLocation) ==
    LET oldIndex == getPropertyImpl(m, x, propertyName)
        newIndex == getPropertyImpl(m, x, newLocation)
        oldFound == oldIndex # 0
        newFound == newIndex # 0
        oldProp == m[x].kids[oldIndex]
        newProp == m[x].kids[newIndex]
        old == m[oldProp].val
        new == m[newProp].val
    IN
    IF oldFound /\ ~newFound
    THEN \* newLoc doesn't exist, simply renaming property
         [mem |-> [m EXCEPT ![oldProp].s = newLocation], removed |-> oldFound,
          panic |-> FALSE]
    ELSE IF oldFound
    THEN IF m[old].kind = "List" /\ m[new].kind = "List"
         THEN IF \E k \in DOMAIN m[old].kids : m[m[old].kids[k]].kind # "String"
              THEN [mem |-> m, removed |-> FALSE, panic |-> TRUE]
              ELSE [mem |-> RemoveProperty(
                               MoveStrings(m, old, new,
                                  [k \in DOMAIN m[old].kids |-> m[m[old].kids[k]].s]),
                               x, m[oldProp].s),
                    removed |-> oldFound, panic |-> FALSE]
         ELSE [mem |-> m, removed |-> oldFound, panic |-> FALSE]
    ELSE [mem |-> m, removed |-> oldFound, panic |-> FALSE]

MovedValues ==
    {ListTerm(<<StrTerm("x"), StrTerm("y")>>), ListTerm(<<StrTerm("z")>>),
     StrTerm("s"), ListTerm(<<IntTerm(1)>>), ListTerm(<<StrTerm("x"), IntTerm(1)>>)}

MovedMaps ==
    {MapTerm(<<Prop("a", v)>>) : v \in MovedValues}
    \cup {MapTerm(<<Prop("a", v), Prop("b", w)>>) : v, w \in MovedValues}

PropertyLocations == {"a", "b", "c"}

CallMovePropertyContents(propertyName, newLocation) ==
    /\ ret.op = "definition"
    /\ With(asgs[p.defs[1]].Value, LAMBDA x :
       With(MovePropertyContents(mem, x, propertyName, newLocation), LAMBDA r :
          /\ mem' = r.mem
          /\ ret' = IF r.panic
                    THEN [NoRet EXCEPT !.op = "panic", !.panicked = TRUE]
                    ELSE [NoRet EXCEPT !.op = "MovePropertyContents",
                                       !.removed = r.removed]
          /\ arg' = [d |-> "MovePropertyContents", x |-> x,
                     propertyName |-> propertyName, newLocation |-> newLocation,
                     structure |-> Structure(mem, x)]))
    /\ UNCHANGED <<asgs, scopes, p>>

InitMove == \E t \in MovedMaps : InitFile(t)

NextMove ==
    \/ ParseFile
    \/ \E propertyName, newLocation \in PropertyLocations :
          CallMovePropertyContents(propertyName, newLocation)

SpecMove == InitMove /\ [][NextMove]_vars

(* The properties of the Map before the call, as structures. *)
Before == arg.structure.kids

(* The index in Before of the first property of the name, 0 if none. *)
Found(name) ==
    IF \E k \in DOMAIN Before : Before[k].s = name
    THEN CHOOSE k \in DOMAIN Before :
            Before[k].s = name /\ \A j \in 1..(k - 1) : Before[j].s # name
    ELSE 0

(* The structure v is a List of Strings. *)
ListOfStrings(v) ==
    v.kind = "List" /\ \A k \in DOMAIN v.kids : v.kids[k].kind = "String"

(* C16 as stated: MovePropertyContents(from, to) returns to its caller in    *)
(* every case.  If from does not exist the map is unchanged and the result   *)
(* false; if only from exists it is renamed; if both exist and are Lists of  *)
(* Strings the source property is deleted; if both exist in any other shape  *)
(* (a value that is not a List, a source List with an element that is not a  *)
(* String) the map is unchanged.                                              *)
C16_AsStated ==
    arg.d = "MovePropertyContents" =>
       /\ ~ret.panicked
       /\ LET from == Found(arg.propertyName)
              to == Found(arg.newLocation)
              after == Structure(mem, arg.x)
          IN CASE from = 0 -> after = arg.structure /\ ~ret.removed
               [] from # 0 /\ to = 0 ->
                     after = [arg.structure EXCEPT !.kids[from].s = arg.newLocation]
               [] from # 0 /\ to # 0 /\ ListOfStrings(Before[from].val)
                     /\ ListOfStrings(Before[to].val) ->
                     /\ Len(after.kids) = Len(Before) - 1
                     /\ \A k \in DOMAIN after.kids : after.kids[k].s # arg.propertyName
               [] OTHER -> after = arg.structure

(* C16's case: in {a: ["x", 1], b: ["z"]}, a was moved to b: the call        *)
(* panicked on the element 1.                                                 *)
C16_Witness ==
    /\ arg.d = "MovePropertyContents"
    /\ arg.propertyName = "a"
    /\ arg.newLocation = "b"
    /\ Len(Before) = 2
    /\ Len(Before[1].val.kids) = 2
    /\ Before[1].val.kids[2].kind = "Int64"
    /\ ListOfStrings(Before[2].val)
    /\ ret.panicked

------------------------------------------------------------------------------
(* addMaps and a name that occurs twice in one list. *)

(* The property q of a list given to addMaps is kept by the result: as an    *)
(* entry of its own, or as the operand at index side of a merged entry of    *)
(* its name.                                                                  *)
Retained(q, side) ==
    \/ q \in Range(arg.props)
    \/ \E k \in DOMAIN arg.props :
          /\ mem[arg.props[k]].s = mem[q].s
          /\ mem[mem[arg.props[k]].val].kind = "Operator"
          /\ mem[mem[arg.props[k]].val].kids[side] = mem[q].val

(* C17 as stated: addMaps drops no property: every property of map1 and     *)
(* every property of map2 is retained by the result, also when its name      *)
(* occurs more than once in its list.                                         *)
C17_AsStated ==
    Merged =>
       /\ \A k \in DOMAIN arg.map1 : Retained(arg.map1[k], 1)
       /\ \A k \in DOMAIN arg.map2 : Retained(arg.map2[k], 2)

(* C17's case: {a: "x"} was merged with {a: "x", a: "z"}: the result is the  *)
(* one property a = "x" + "z".                                               *)
C17_Witness ==
    /\ Merged
    /\ NamesOf(arg.map1) = <<"a">>
    /\ NamesOf(arg.map2) = <<"a", "a">>
    /\ Len(arg.props) = 1
    /\ mem[mem[arg.props[1]].val].kids[2] = mem[arg.map2[2]].val
    /\ mem[Eval(mem, mem[arg.props[1]].val)].s = "xz"

------------------------------------------------------------------------------
(* Module.Name.  A file of one module `m { ... }` has been parsed; the       *)
(* caller calls Name on the Module and mutates its properties in between.    *)
(* Name__internal_only, a *string, is the field ref of the Module: Nil, or   *)
(* the string variable that it points to.                                     *)

RECURSIVE StringOf(_, _)
RECURSIVE JoinStrings(_, _)

(* strings.Join(the String() of each node of xs, ", ") *)
JoinStrings(m, xs) ==
    IF xs = <<>> THEN ""
    ELSE IF Len(xs) = 1 THEN StringOf(m, xs[1])
    ELSE StringOf(m, xs[1]) \o ", " \o JoinStrings(m, Tail(xs))

(* x.String().  A scanner.Position prints as its offset; the %q of an int64  *)
(* is a quoted character literal, written here as the number in quotes.      *)
StringOf(m, x) ==
    LET n == m[x] IN
    CASE n.kind = "String" -> "\"" \o n.s \o "\"@" \o ToString(n.pos)
      [] n.kind = "Int64" -> "'" \o ToString(n.i) \o "'@" \o ToString(n.pos)
      [] n.kind = "Bool" -> ToString(n.b) \o "@" \o ToString(n.pos)
      [] n.kind = "List" -> "@[" \o JoinStrings(m, n.kids) \o "]"
      [] n.kind = "Map" -> "@{" \o JoinStrings(m, n.kids) \o "}"
      [] n.kind = "Property" ->
            n.s \o "@" \o ToString(n.pos) \o ": " \o StringOf(m, n.val)
      [] n.kind = "Variable" -> n.s \o " = " \o StringOf(m, n.val)
      [] n.kind = "NotEvaluated" -> "Not Evaluated"
      [] n.kind = "UnsetProperty" -> "unset"

(* The string variable `name` that Name__internal_only is made to point to. *)
StringVariable(name) == [Blank EXCEPT !.kind = "string", !.s = name]

(* The name that the loop of Name leaves in the cache: each property called  *)
(* name assigns it, so the last one decides.                                  *)
ComputedName(m, x) ==
    LET named == {k \in DOMAIN m[x].kids : m[m[x].kids[k]].s = "name"}
    IN IF named = {} THEN ""
       ELSE LET last == CHOOSE k \in named : \A j \in named : j <= k
                value == m[m[x].kids[last]].val
            IN IF m[value].kind = "String" THEN m[value].s ELSE StringOf(m, value)

(* m.Name() that computes the name at every call. *)
NameNotMemoized(m, x) ==
    [mem |-> [Append(m, StringVariable(ComputedName(m, x))) EXCEPT ![x].ref = Len(m) + 1],
     name |-> ComputedName(m, x)]

(* m.Name(): [mem |-> the heap afterwards, name |-> the result]. *)
Name(m, x) ==
    IF m[x].ref # Nil THEN [mem |-> m, name |-> m[m[x].ref].s]
    ELSE [mem |-> [Append(m, StringVariable(ComputedName(m, x)))
                      EXCEPT ![x].ref = Len(m) + 1],
          name |-> ComputedName(m, x)]

MaxHeap == 10

ModuleValues == {StrTerm("lib"), IntTerm(1), ListTerm(<<StrTerm("x")>>)}

ModuleDefinitions ==
    {[d |-> "module", typ |-> "m", ps |-> ps] :
        ps \in {<<>>}
           \cup {<<Prop(n, v)>> : n \in {"name", "srcs"}, v \in ModuleValues}
           \cup {<<Prop("name", v), Prop(n, w)>> :
                    n \in {"name", "srcs"}, v \in ModuleValues, w \in ModuleValues}}

InitName ==
    /\ mem = <<String(0, "v")>>
    /\ asgs = <<Assignment("x", 1, "=")>>
    /\ scopes = <<[vars |-> ("x" :> 1), inheritedVars |-> EmptyTable]>>
    /\ \E eval \in BOOLEAN :
          /\ p = newParser(1, eval)
          /\ ret = [NoRet EXCEPT !.op = IF eval THEN "ParseAndEval" ELSE "Parse",
                                 !.scope = 1]
    /\ arg \in ModuleDefinitions

(* The file has been parsed with success and its Module is p.defs[1]. *)
HasModule == p.state = "parsing" /\ Len(p.defs) = 1 /\ ret.errs = <<>>

(* name := m.Name() *)
CallName ==
    /\ HasModule
    /\ Len(mem) < MaxHeap
    /\ With(Name(mem, p.defs[1]), LAMBDA r :
          /\ mem' = r.mem
          /\ ret' = [ret EXCEPT !.op = "Name", !.name = r.name])
    /\ arg' = [d |-> "Name"]
    /\ UNCHANGED <<asgs, scopes, p>>

(* m.RemoveProperty(propertyName) *)
CallRemoveProperty(propertyName) ==
    /\ HasModule
    /\ mem' = RemoveProperty(mem, p.defs[1], propertyName)
    /\ ret' = [ret EXCEPT !.op = "RemoveProperty",
                          !.removed = getPropertyImpl(mem, p.defs[1], propertyName) # 0]
    /\ arg' = [d |-> "RemoveProperty"]
    /\ UNCHANGED <<asgs, scopes, p>>

(* m.MovePropertyContents(propertyName, newLocation), when it returns *)
CallMoveInModule(propertyName, newLocation) ==
    /\ HasModule
    /\ Len(mem) < MaxHeap
    /\ With(MovePropertyContents(mem, p.defs[1], propertyName, newLocation), LAMBDA r :
          /\ ~r.panic
          /\ mem' = r.mem
          /\ ret' = [ret EXCEPT !.op = "MovePropertyContents", !.removed = r.removed])
    /\ arg' = [d |-> "MovePropertyContents"]
    /\ UNCHANGED <<asgs, scopes, p>>

(* The caller appends a property name: "other" to m.Properties. *)
AddNameProperty ==
    /\ HasModule
    /\ Len(mem) < MaxHeap
    /\ Len(mem[p.defs[1]].kids) < 2
    /\ mem' = [Append(Append(mem, String(0, "other")),
                      Property("name", 0, Len(mem) + 1))
                  EXCEPT ![p.defs[1]].kids = Append(@, Len(mem) + 2)]
    /\ ret' = [ret EXCEPT !.op = "AddNameProperty"]
    /\ arg' = [d |-> "AddNameProperty"]
    /\ UNCHANGED <<asgs, scopes, p>>

(* The caller writes the Value of the String of a property called name. *)
ChangeName(k) ==
    /\ HasModule
    /\ k \in DOMAIN mem[p.defs[1]].kids
    /\ mem[mem[p.defs[1]].kids[k]].s = "name"
    /\ mem[mem[mem[p.defs[1]].kids[k]].val].kind = "String"
    /\ mem[mem[mem[p.defs[1]].kids[k]].val].s # "changed"
    /\ mem' = [mem EXCEPT ![mem[mem[p.defs[1]].kids[k]].val].s = "changed"]
    /\ ret' = [ret EXCEPT !.op = "ChangeName"]
    /\ arg' = [d |-> "ChangeName"]
    /\ UNCHANGED <<asgs, scopes, p>>

NextName ==
    \/ ParseFile
    \/ CallName
    \/ \E propertyName \in {"name", "srcs"} : CallRemoveProperty(propertyName)
    \/ \E propertyName, newLocation \in {"name", "srcs"} :
          CallMoveInModule(propertyName, newLocation)
    \/ AddNameProperty
    \/ \E k \in 1..2 : ChangeName(k)

SpecName == InitName /\ [][NextName]_vars

(* The module of the file and its cache. *)
TheModule == p.defs[1]
Cache == mem[TheModule].ref

(* The step is a call of Name on the module. *)
NameStep == HasModule /\ ret'.op = "Name" /\ arg'.d = "Name"

(* The name property that decides: the last one called name, 0 if none. *)
NameProperty ==
    LET named == {k \in DOMAIN mem[TheModule].kids : mem[mem[TheModule].kids[k]].s = "name"}
    IN IF named = {} THEN 0 ELSE CHOOSE k \in named : \A j \in named : j <= k

(* C18: the first call of Name on a module returns the Value of the String   *)
(* of its name property, or the String() of a value that is not a String, or *)
(* "" when it has no name property; every later call returns what the call   *)
(* before it returned, and so the first name, whatever the caller did to the *)
(* properties in between; no mutation of the properties changes the cache.   *)
C18_NameMemoized ==
    [][/\ NameStep /\ Cache = Nil =>
             /\ NameProperty = 0 => ret'.name = ""
             /\ NameProperty # 0 =>
                   LET v == mem[mem[TheModule].kids[NameProperty]].val
                   IN ret'.name = IF mem[v].kind = "String" THEN mem[v].s
                                  ELSE StringOf(mem, v)
       /\ NameStep /\ Cache # Nil => ret'.name = ret.name
       /\ HasModule /\ Cache # Nil =>
             /\ mem'[TheModule].ref = Cache
             /\ mem'[Cache].s = mem[Cache].s
             /\ mem[Cache].s = ret.name]_vars

(* C18's case: Name was called on a module without a name property, a       *)
(* property name: "other" was then added, and Name still returned "".        *)
C18_Witness ==
    /\ HasModule
    /\ ret.op = "Name"
    /\ ret.name = ""
    /\ NameProperty # 0
    /\ mem[mem[mem[TheModule].kids[NameProperty]].val].s = "other"

------------------------------------------------------------------------------
(* The append of a select that already has one (under SpecSeveral). *)

(* The last definition parsed is a successful `x += e` under ParseAndEval,   *)
(* and x evaluated to a Select that already carried an appended value.       *)
AppendedTwice ==
    /\ p.state = "parsing"
    /\ p.eval
    /\ ret.op = "definition"
    /\ arg.d = "assign"
    /\ arg.assigner = "+="
    /\ mem[asgs[Binding].Value].kind = "Operator"
    /\ mem[Eval(mem, mem[asgs[Binding].Value].kids[1])].kind = "Select"
    /\ mem[Eval(mem, mem[asgs[Binding].Value].kids[1])].val # Nil

(* The values that the select x carries after it, as structures. *)
Carried(x) == {Structure(mem, y) : y \in Reach(mem, <<mem[x].val>>)}

(* C19 as stated: after `x = select(...) + A` and `x += B` under             *)
(* ParseAndEval, the folded select of x still carries A as well as B.        *)
C19_AsStated ==
    AppendedTwice =>
       LET value1 == mem[asgs[Binding].Value].kids[1]
           value2 == mem[asgs[Binding].Value].kids[2]
           folded == Eval(mem, asgs[Binding].Value)
       IN /\ mem[folded].kind = "Select"
          /\ Structure(mem, mem[Eval(mem, value1)].val) \in Carried(folded)
          /\ Structure(mem, Eval(mem, value2)) \in Carried(folded)

(* C19's case: `x = select(...) + "a"` then `x += "b"`: the folded select's  *)
(* Append is "b" and the "a" is gone.                                         *)
C19_Witness ==
    /\ AppendedTwice
    /\ mem[mem[Eval(mem, mem[asgs[Binding].Value].kids[1])].val].s = "a"
    /\ mem[Eval(mem, asgs[Binding].Value)].kind = "Select"
    /\ mem[mem[Eval(mem, asgs[Binding].Value)].val].s = "b"
    /\ mem[mem[Eval(mem, asgs[Binding].Value)].val].kind = "String"

------------------------------------------------------------------------------
(* A definition that fails (under Spec). *)

(* The step is a definition that fails under ParseAndEval with a scope. *)
FailedDefinition == DefinitionStep /\ Failed /\ p.eval /\ p.scope # Nil

(* C20, as it holds: a definition that fails during ParseAndEval adds no     *)
(* binding to any scope and removes none, and changes no assignment's Value; *)
(* but the Referenced flag of a binding that the scope holds locally and     *)
(* that the definition's expression read before the failure has become true. *)
(* No other flag changes.                                                     *)
C20_FailedDefinition ==
    [][FailedDefinition =>
          /\ scopes' = scopes
          /\ DOMAIN asgs' = DOMAIN asgs
          /\ \A a \in DOMAIN asgs :
                /\ asgs'[a] = [asgs[a] EXCEPT !.Referenced = asgs'[a].Referenced]
                /\ Structure(mem', asgs[a].Value) = Structure(mem, asgs[a].Value)
                /\ asgs[a].Referenced => asgs'[a].Referenced
                /\ asgs'[a].Referenced /\ ~asgs[a].Referenced =>
                      \E n \in Reads(arg') :
                         Get(scopes[p.scope], n) = [a |-> a, local |-> TRUE]
          /\ \A n \in Reads(arg') :
                LET g == Get(scopes[p.scope], n)
                IN g.a # Nil /\ g.local => asgs'[g.a].Referenced]_vars

(* C20's case: ParseAndEval of `x = x` with a scope that holds x failed, x   *)
(* being set already, and x is referenced.                                    *)
C20_Witness ==
    /\ ret.op = "return"
    /\ ret.errs = <<"variable already set">>
    /\ arg = Assign("x", "=", VarTerm("x"))
    /\ ret.scope # Nil
    /\ asgs[scopes[ret.scope].vars["x"]].Referenced

(* C20 as stated: a definition that fails during ParseAndEval leaves the     *)
(* scope as it was: no binding added or removed, no Value and no Referenced  *)
(* flag changed.                                                              *)
C20_AsStated ==
    [][FailedDefinition => scopes' = scopes /\ asgs' = asgs]_vars

====
